---- MODULE Spec2Model ----
(***************************************************************************)
(* A model of the iridium-stomp client core: the streaming frame decoder   *)
(* (src/src/codec.rs, src/iridium-stomp/src/parser.rs) and the connection  *)
(* manager with the application operations that share its state            *)
(* (src/src/connection.rs).                                                *)
(*                                                                         *)
(* Bytes are integers 0..255, byte strings are sequences of them, and      *)
(* positions are 0-based as in the source: input[pos] is written At(input, *)
(* pos).                                                                   *)
(***************************************************************************)
EXTENDS Integers, Sequences, FiniteSets, TLC

\* ------------------------------------------------------------------ bytes

LF == 10
NUL == 0
CR == 13
COLON == 58
BACKSLASH == 92
LetterA == 65

\* input[i] with a 0-based index
At(s, i) == s[i + 1]

\* input[a..b] (0-based, b exclusive)
Slice(s, a, b) == SubSeq(s, a + 1, b)

SetMin(S) == CHOOSE x \in S : \A y \in S : x <= y

\* input[from..].iter().position(|&x| x == b): the relative index, -1 for None
Position(s, from, b) ==
    LET idx == {i \in from..(Len(s) - 1) : At(s, i) = b}
    IN  IF idx = {} THEN -1 ELSE SetMin(idx) - from

\* u8::to_ascii_lowercase, as eq_ignore_ascii_case compares
AsciiLower(b) == IF b >= 65 /\ b <= 90 THEN b + 32 ELSE b

EqIgnoreAsciiCase(a, b) ==
    /\ Len(a) = Len(b)
    /\ \A i \in 1..Len(a) : AsciiLower(a[i]) = AsciiLower(b[i])

\* b"content-length"
ContentLengthKey == <<99, 111, 110, 116, 101, 110, 116, 45, 108, 101, 110, 103, 116, 104>>

\* std::str::from_utf8(..).is_ok(): the well-formed UTF-8 byte sequences
RECURSIVE IsUtf8(_)
IsCont(b) == b >= 128 /\ b <= 191
IsUtf8(s) ==
    IF Len(s) = 0 THEN TRUE
    ELSE LET b == s[1]
             n == Len(s)
         IN  IF b < 128 THEN IsUtf8(Tail(s))
             ELSE IF b >= 194 /\ b <= 223
                  THEN n >= 2 /\ IsCont(s[2]) /\ IsUtf8(SubSeq(s, 3, n))
             ELSE IF b >= 224 /\ b <= 239
                  THEN /\ n >= 3
                       /\ IsCont(s[2])
                       /\ IsCont(s[3])
                       /\ (b = 224 => s[2] >= 160)
                       /\ (b = 237 => s[2] <= 159)
                       /\ IsUtf8(SubSeq(s, 4, n))
             ELSE IF b >= 240 /\ b <= 244
                  THEN /\ n >= 4
                       /\ IsCont(s[2])
                       /\ IsCont(s[3])
                       /\ IsCont(s[4])
                       /\ (b = 240 => s[2] >= 144)
                       /\ (b = 244 => s[2] <= 143)
                       /\ IsUtf8(SubSeq(s, 5, n))
             ELSE FALSE

\* str::trim on ASCII text: strips white space at both ends
IsSpace(b) == b \in {9, 10, 11, 12, 13, 32}

RECURSIVE TrimStart(_)
TrimStart(s) == IF Len(s) > 0 /\ IsSpace(s[1]) THEN TrimStart(Tail(s)) ELSE s

RECURSIVE TrimEnd(_)
TrimEnd(s) ==
    IF Len(s) > 0 /\ IsSpace(s[Len(s)]) THEN TrimEnd(SubSeq(s, 1, Len(s) - 1)) ELSE s

Trim(s) == TrimEnd(TrimStart(s))

\* The width of usize in the model: values above UsizeMax do not parse.
UsizeMax == 65535

\* str::parse::<usize>: an optional '+', then one or more decimal digits;
\* -1 for Err (empty, a non-digit, or a value that does not fit)
RECURSIVE ParseDigits(_, _)
ParseDigits(s, acc) ==
    IF Len(s) = 0 THEN acc
    ELSE IF s[1] < 48 \/ s[1] > 57 THEN -1
    ELSE LET v == acc * 10 + (s[1] - 48)
         IN  IF v > UsizeMax THEN -1 ELSE ParseDigits(Tail(s), v)

ParseUsize(s) ==
    LET digits == IF Len(s) > 0 /\ s[1] = 43 THEN Tail(s) ELSE s
    IN  IF Len(digits) = 0 THEN -1 ELSE ParseDigits(digits, 0)

\* ----------------------------------------------------------------- parser

\* get_content_length: [kind |-> "absent"], [kind |-> "some", n |-> n] or
\* [kind |-> "err"], decided by the first header named content-length
RECURSIVE get_content_length(_)
get_content_length(headers) ==
    IF Len(headers) = 0 THEN [kind |-> "absent", n |-> 0]
    ELSE LET k == headers[1][1]
             v == headers[1][2]
         IN  IF EqIgnoreAsciiCase(k, ContentLengthKey)
             THEN IF ~IsUtf8(v) THEN [kind |-> "err", n |-> 0]
                  ELSE LET trimmed == Trim(v)
                       IN  IF Len(trimmed) = 0 THEN [kind |-> "err", n |-> 0]
                           ELSE IF ParseUsize(trimmed) = -1
                                THEN [kind |-> "err", n |-> 0]
                                ELSE [kind |-> "some", n |-> ParseUsize(trimmed)]
             ELSE get_content_length(Tail(headers))

\* the while loop skipping leading LF bytes: the first position that holds none
RECURSIVE SkipLeadingLF(_, _)
SkipLeadingLF(input, pos) ==
    IF pos < Len(input) /\ At(input, pos) = LF
    THEN SkipLeadingLF(input, pos + 1)
    ELSE pos

\* a parser that leaves the LF after the NUL in the buffer
KeepTrailingLF(input, pos) == pos

\* after the NUL at pos - 1: one optional trailing LF is consumed
SkipTrailingLF(input, pos) ==
    IF pos < Len(input) /\ At(input, pos) = LF THEN pos + 1 ELSE pos

StripCR(line) ==
    IF Len(line) > 0 /\ line[Len(line)] = CR THEN SubSeq(line, 1, Len(line) - 1) ELSE line

ParseNone == [kind |-> "none", command |-> <<>>, headers |-> <<>>, body |-> <<>>, consumed |-> 0]
ParseErr == [kind |-> "err", command |-> <<>>, headers |-> <<>>, body |-> <<>>, consumed |-> 0]
ParseOk(command, headers, body, pos) ==
    [kind |-> "frame", command |-> command, headers |-> headers, body |-> body, consumed |-> pos]

\* the header loop of parse_frame_slice: [kind, pos, headers]
RECURSIVE ParseHeaders(_, _, _)
ParseHeaders(input, pos, headers) ==
    IF pos >= Len(input) THEN [kind |-> "none", pos |-> pos, headers |-> headers]
    ELSE IF At(input, pos) = LF THEN [kind |-> "ok", pos |-> pos + 1, headers |-> headers]
    ELSE LET line_end_rel == Position(input, pos, LF)
         IN  IF line_end_rel = -1 THEN [kind |-> "none", pos |-> pos, headers |-> headers]
             ELSE LET line == StripCR(Slice(input, pos, pos + line_end_rel))
                      colon == Position(line, 0, COLON)
                  IN  IF colon = -1 THEN [kind |-> "err", pos |-> pos, headers |-> headers]
                      ELSE ParseHeaders(input, pos + line_end_rel + 1,
                               Append(headers,
                                   <<Slice(line, 0, colon), Slice(line, colon + 1, Len(line))>>))

\* the body of a frame whose headers end at pos
ParseBody(input, command, headers, pos) ==
    LET cl == get_content_length(headers)
        len == Len(input)
    IN  IF cl.kind = "err" THEN ParseErr
        ELSE IF cl.kind = "some"
        THEN IF pos + cl.n + 1 > len THEN ParseNone
             ELSE IF At(input, pos + cl.n) # NUL THEN ParseErr
             ELSE ParseOk(command, headers, Slice(input, pos, pos + cl.n),
                          SkipTrailingLF(input, pos + cl.n + 1))
        ELSE LET nul_rel == Position(input, pos, NUL)
             IN  IF nul_rel = -1 THEN ParseNone
                 ELSE ParseOk(command, headers, Slice(input, pos, pos + nul_rel),
                              SkipTrailingLF(input, pos + nul_rel + 1))

parse_frame_slice(input) ==
    LET pos == SkipLeadingLF(input, 0)
        cmd_end_rel == Position(input, pos, LF)
    IN  IF cmd_end_rel # -1
        THEN LET command == StripCR(Slice(input, pos, pos + cmd_end_rel))
                 h == ParseHeaders(input, pos + cmd_end_rel + 1, <<>>)
             IN  IF h.kind = "none" THEN ParseNone
                 ELSE IF h.kind = "err" THEN ParseErr
                 ELSE ParseBody(input, command, h.headers, h.pos)
        ELSE LET nul_rel == Position(input, pos, NUL)
             IN  IF nul_rel = -1 THEN ParseNone
                 ELSE ParseOk(<<>>, <<>>, Slice(input, pos, pos + nul_rel),
                              SkipTrailingLF(input, pos + nul_rel + 1))

\* unescape_header_value: [ok, val]; \\ \r \n \c are the escapes, any other
\* byte after a backslash and a trailing backslash are errors
RECURSIVE unescape_header_value(_)
unescape_header_value(s) ==
    IF Len(s) = 0 THEN [ok |-> TRUE, val |-> <<>>]
    ELSE IF s[1] # BACKSLASH
         THEN LET r == unescape_header_value(Tail(s))
              IN  [ok |-> r.ok, val |-> <<s[1]>> \o r.val]
    ELSE IF Len(s) < 2 THEN [ok |-> FALSE, val |-> <<>>]
    ELSE LET c == s[2]
             r == unescape_header_value(SubSeq(s, 3, Len(s)))
             raw == IF c = BACKSLASH THEN BACKSLASH
                    ELSE IF c = 114 THEN CR
                    ELSE IF c = 110 THEN LF
                    ELSE IF c = 99 THEN COLON
                    ELSE -1
         IN  IF raw = -1 THEN [ok |-> FALSE, val |-> <<>>]
             ELSE [ok |-> r.ok, val |-> <<raw>> \o r.val]

\* ------------------------------------------------------------------ codec

Heartbeat == [kind |-> "heartbeat"]
NoFrame == [kind |-> "none"]
FrameItem(command, headers, body) ==
    [kind |-> "frame", command |-> command, headers |-> headers, body |-> body]

\* the conversion of the parsed header list: unescape and check each key and value
RECURSIVE ConvertHeaders(_)
ConvertHeaders(headers) ==
    IF Len(headers) = 0 THEN [ok |-> TRUE, val |-> <<>>]
    ELSE LET k == unescape_header_value(headers[1][1])
             v == unescape_header_value(headers[1][2])
             r == ConvertHeaders(Tail(headers))
         IN  IF k.ok /\ IsUtf8(k.val) /\ v.ok /\ IsUtf8(v.val) /\ r.ok
             THEN [ok |-> TRUE, val |-> <<(<<k.val, v.val>>)>> \o r.val]
             ELSE [ok |-> FALSE, val |-> <<>>]

\* StompCodec::decode on the buffer src: [kind, item, consumed] with kind
\* "item" (Ok(Some)), "none" (Ok(None)) or "err" (Err)
decode(src) ==
    IF Len(src) > 0 /\ src[1] = LF
    THEN [kind |-> "item", item |-> Heartbeat, consumed |-> 1]
    ELSE LET p == parse_frame_slice(src)
         IN  IF p.kind = "none" THEN [kind |-> "none", item |-> Heartbeat, consumed |-> 0]
             ELSE IF p.kind = "err" THEN [kind |-> "err", item |-> Heartbeat, consumed |-> 0]
             ELSE LET h == ConvertHeaders(p.headers)
                  IN  IF ~IsUtf8(p.command) \/ ~h.ok
                      THEN [kind |-> "err", item |-> Heartbeat, consumed |-> p.consumed]
                      ELSE [kind |-> "item",
                            item |-> FrameItem(p.command, h.val, p.body),
                            consumed |-> p.consumed]

\* decode called until it returns need-more or an error: the items of one buffer
RECURSIVE DecodeAll(_)
DecodeAll(src) ==
    LET d == decode(src)
    IN  IF d.kind = "item"
        THEN <<d.item>> \o DecodeAll(SubSeq(src, d.consumed + 1, Len(src)))
        ELSE <<>>

\* an escaping that leaves the colon as it is
RECURSIVE EscapeButColon(_)
EscapeButColon(input) ==
    IF Len(input) = 0 THEN <<>>
    ELSE (IF input[1] = BACKSLASH THEN <<BACKSLASH, BACKSLASH>>
          ELSE IF input[1] = CR THEN <<BACKSLASH, 114>>
          ELSE IF input[1] = LF THEN <<BACKSLASH, 110>>
          ELSE <<input[1]>>)
         \o EscapeButColon(Tail(input))

\* escape_header_value: backslash, CR, LF and colon become \\ \r \n \c
RECURSIVE escape_header_value(_)
escape_header_value(input) ==
    IF Len(input) = 0 THEN <<>>
    ELSE (IF input[1] = BACKSLASH THEN <<BACKSLASH, BACKSLASH>>
          ELSE IF input[1] = CR THEN <<BACKSLASH, 114>>
          ELSE IF input[1] = LF THEN <<BACKSLASH, 110>>
          ELSE IF input[1] = COLON THEN <<BACKSLASH, 99>>
          ELSE <<input[1]>>)
         \o escape_header_value(Tail(input))

\* usize::to_string: the decimal digits
RECURSIVE ToDecimal(_)
ToDecimal(n) == IF n < 10 THEN <<48 + n>> ELSE ToDecimal(n \div 10) \o <<48 + (n % 10)>>

\* an encoder that adds content-length to every frame without one
HeadersAlwaysSized(frame) ==
    IF \E i \in 1..Len(frame.headers) :
           EqIgnoreAsciiCase(frame.headers[i][1], ContentLengthKey)
    THEN frame.headers
    ELSE Append(frame.headers, <<ContentLengthKey, ToDecimal(Len(frame.body))>>)

\* the header list encode writes: content-length is added when no header has
\* that name and the body holds a NUL byte or is not UTF-8
EncodedHeaders(frame) ==
    LET has_cl == \E i \in 1..Len(frame.headers) :
                      EqIgnoreAsciiCase(frame.headers[i][1], ContentLengthKey)
        include_cl == (\E i \in 1..Len(frame.body) : frame.body[i] = NUL) \/ ~IsUtf8(frame.body)
    IN  IF ~has_cl /\ include_cl
        THEN Append(frame.headers, <<ContentLengthKey, ToDecimal(Len(frame.body))>>)
        ELSE frame.headers

\* the header lines: escaped key, colon, escaped value, LF
RECURSIVE HeaderLines(_)
HeaderLines(headers) ==
    IF Len(headers) = 0 THEN <<>>
    ELSE escape_header_value(headers[1][1]) \o <<COLON>>
         \o escape_header_value(headers[1][2]) \o <<LF>>
         \o HeaderLines(Tail(headers))

\* StompCodec::encode: the bytes appended to dst
encode(item) ==
    IF item.kind = "heartbeat" THEN <<LF>>
    ELSE item.command \o <<LF>> \o HeaderLines(EncodedHeaders(item)) \o <<LF>>
         \o item.body \o <<NUL>>

\* ------------------------------------------------------------------ state

VARIABLES
    \* a run of the decoder
    stream,             \* the bytes the transport will deliver
    chunk,              \* how many bytes each read delivers
    fed,                \* how many bytes have been delivered
    buf,                \* the read buffer: delivered and not yet consumed
    items,              \* the items decoded so far
    dstate,             \* "ready" (decode may be called), "more" (need more), "err"
    sample,             \* the frame a round trip encodes or the units of a whole
                        \* buffer, NoFrame in the other runs
    \* the manager task spawned by Connection::connect
    connect_result,     \* what connect returned to its caller ("none" before the call)
    pc,                 \* where the manager task is
    backoff_secs,
    shutdown_sub,       \* values the manager's broadcast receiver has not read; NoSub without one
    link,               \* the transport: "none", "up", "down" (failed or closed by either side)
    wire,               \* the items written to the current transport
    netIn,              \* items the server has sent that the manager has not read
    connected,          \* a CONNECTED frame was read on the current transport
    cur,                \* the inbound frame being routed
    need_pending,
    subs_snapshot,      \* the resubscribe entries not yet written
    \* state shared by the manager and the handles
    outQ,               \* the outbound channel
    inQ,                \* the generic inbound channel
    subscriptions,      \* destination -> list of SubscriptionEntry
    sub_id_counter,
    subQ,               \* subscription id -> the frames in its channel
    rxAlive,            \* subscription id -> its receiver has not been dropped
    pending,            \* subscription id -> queue of <<message-id, frame>>
    pendingLock,        \* who holds the mutex of pending: "free", "mgr" or a task
    subsLock,           \* who holds the mutex of subscriptions
    pending_receipts,   \* receipt id -> the oneshot sender registered for it
    receipt_counter_s,  \* RECEIPT_COUNTER of send_frame_with_receipt
    receipt_counter_c,  \* RECEIPT_COUNTER of send_frame_confirmed
    oneshot,            \* oneshot channel -> "open", "sent", "closed" (sender dropped unsent)
    \* the application
    closeCalls,         \* how many handles have been consumed by close
    call,               \* task -> the operation it is in
    ops,                \* how many operations have been started
    \* history
    opened,             \* transports opened so far, counted up to 2
    rejected,           \* an ERROR frame was read in the handshake of the first transport
    held,               \* the subscriptions the application holds: id -> what it asked for
    heldAtDrop,         \* held, at the moment the transport last dropped
    resubbed,           \* the SUBSCRIBE frames the manager wrote on this transport on its own
    fails,              \* failed attempts in a row since the last completed startup
    genIds,             \* the receipt ids generated so far, in order
    \* what the two ends observe
    served,             \* how many numbered MESSAGE frames the server has sent
    received,           \* the frames the server has read from the transports, in order
    readLog,            \* <<subscription id, frame>> for every frame a consumer has read
    \* heartbeats
    client_hb,          \* the heart-beat value connect was called with
    server_heartbeat,   \* the heart-beat value of the CONNECTED frame, "0,0" without one
    send_interval,      \* the negotiated outgoing interval: None or Some(d)
    recv_interval,      \* the negotiated incoming interval
    \* the clock, kept as the differences the code computes
    since_received,     \* current_millis() - last_received, counted up to 2 * incoming + 1
    since_sent,         \* current_millis() - writer_last_sent, counted up to outgoing
    since_write,        \* the time since the manager last wrote to the transport
    tick_in,            \* the time until hb_tick completes next
    slept               \* how long the watchdog sleep of the current select! has run

codecVars == <<stream, chunk, fed, buf, items, dstate, sample>>
mgrVars == <<connect_result, pc, backoff_secs, shutdown_sub, link, wire, netIn, connected,
             cur, need_pending, subs_snapshot>>
chanVars == <<outQ, inQ>>
subVars == <<subscriptions, sub_id_counter, subQ, rxAlive, pending, pendingLock, subsLock>>
rcptVars == <<pending_receipts, receipt_counter_s, receipt_counter_c, oneshot, genIds>>
appVars == <<closeCalls, call, ops>>
histVars == <<opened, rejected, held, heldAtDrop, resubbed, fails>>
obsVars == <<served, received, readLog>>
hbVars == <<client_hb, server_heartbeat, send_interval, recv_interval, since_received,
            since_sent, since_write, tick_in, slept>>
connVars == <<mgrVars, chanVars, subVars, rcptVars, appVars, histVars, obsVars, hbVars>>
vars == <<codecVars, connVars>>

\* ---------------------------------------------------------- decoder runs

\* The pieces byte streams are built of: single bytes, a command with an
\* empty header block, and a command with a content-length header.
HeadPlain == <<LetterA, LF, LF>>
HeadSized == <<LetterA, LF>> \o ContentLengthKey \o <<COLON, 49, LF, LF>>
Pieces == {<<LF>>, <<NUL>>, <<LetterA>>, <<COLON>>, <<CR>>, HeadPlain, HeadSized}

MaxPieces == 4
MaxChunk == 2

RECURSIVE Concat(_)
Concat(ps) == IF Len(ps) = 0 THEN <<>> ELSE ps[1] \o Concat(Tail(ps))

Streams == {Concat(ps) : ps \in UNION {[1..n -> Pieces] : n \in 0..MaxPieces}}

CodecInit ==
    /\ stream \in Streams
    /\ chunk \in 1..MaxChunk
    /\ fed = 0
    /\ buf = <<>>
    /\ items = <<>>
    /\ dstate = "more"
    /\ sample = NoFrame

\* the transport delivers the next chunk of the stream into the read buffer
Feed ==
    /\ dstate = "more"
    /\ fed < Len(stream)
    /\ LET n == IF fed + chunk > Len(stream) THEN Len(stream) - fed ELSE chunk
       IN  /\ buf' = buf \o SubSeq(stream, fed + 1, fed + n)
           /\ fed' = fed + n
    /\ dstate' = "ready"
    /\ UNCHANGED <<stream, chunk, items, sample, connVars>>

\* one call of decode on the read buffer
DecodeStep ==
    /\ dstate = "ready"
    /\ LET d == decode(buf)
       IN  /\ buf' = SubSeq(buf, d.consumed + 1, Len(buf))
           /\ items' = IF d.kind = "item" THEN Append(items, d.item) ELSE items
           /\ dstate' = IF d.kind = "item" THEN "ready"
                        ELSE IF d.kind = "none" THEN "more" ELSE "err"
    /\ UNCHANGED <<stream, chunk, fed, sample, connVars>>

\* The frames of the round trips: one command, up to two headers whose keys
\* and values are short texts over a letter and the four escaped bytes, and a
\* short body over a letter, NUL, LF and a byte that is not UTF-8.
MaxText == 2
MaxBody == 2
TextBytes == {LetterA, BACKSLASH, CR, LF, COLON}
BodyBytes == {LetterA, NUL, LF, 255}
Texts(lo, hi) == UNION {[1..n -> TextBytes] : n \in lo..hi}
Bodies == UNION {[1..n -> BodyBytes] : n \in 0..MaxBody}
SendCommand == <<83, 69, 78, 68>>
SampleHeaders ==
    {<<>>}
    \cup {<<(<<k, v>>)>> : k \in Texts(1, MaxText), v \in Texts(0, MaxText)}
    \cup {<<(<<k, v>>), (<<k2, v2>>)>> :
              k \in Texts(1, 1), v \in Texts(0, 1), k2 \in Texts(1, 1), v2 \in Texts(0, 1)}
SampleFrames == {FrameItem(SendCommand, h, b) : h \in SampleHeaders, b \in Bodies}

RoundInit ==
    /\ sample \in SampleFrames
    /\ stream = <<>>
    /\ chunk = 1
    /\ fed = 0
    /\ buf = <<>>
    /\ items = <<>>
    /\ dstate = "encode"

\* The frames encoded without being decoded again: with and without a header
\* named content-length in either case, bodies that are text, that hold NUL and
\* that are not UTF-8.
ContentLengthMixed == <<67, 111, 110, 116, 101, 110, 116, 45, 76, 101, 110, 103, 116, 104>>
EncHeaders ==
    {<<>>,
     << <<(<<LetterA>>), (<<LetterA>>)>> >>,
     << <<ContentLengthKey, (<<49>>)>> >>,
     << <<ContentLengthMixed, (<<49>>)>> >>,
     << <<(<<LetterA>>), (<<LetterA>>)>>, <<ContentLengthMixed, (<<57>>)>> >>,
     << <<SubSeq(ContentLengthKey, 1, 7), (<<49>>)>> >>}
EncBodies == UNION {[1..n -> {LetterA, NUL, 255, 195, 169}] : n \in 0..MaxBody}

EncInit ==
    /\ sample \in {FrameItem(SendCommand, h, b) : h \in EncHeaders, b \in EncBodies}
    /\ stream = <<>>
    /\ chunk = 1
    /\ fed = 0
    /\ buf = <<>>
    /\ items = <<>>
    /\ dstate = "encode"

\* codec.encode(StompItem::Frame(sample), &mut buf): the bytes are in the buffer
\* the decoder is then called on
EncodeStep ==
    /\ dstate = "encode"
    /\ stream' = encode(sample)
    /\ buf' = encode(sample)
    /\ fed' = Len(encode(sample))
    /\ dstate' = "ready"
    /\ UNCHANGED <<chunk, items, sample, connVars>>

\* The buffers decoded in one piece: up to MaxUnits units, each a lone LF or
\* the bytes of a frame up to its NUL.
MaxUnits == 7
SendBytes == SendCommand \o <<LF, LF, NUL>>
MessageCommand == <<77, 69, 83, 83, 65, 71, 69>>
MessageIdKey == <<109, 101, 115, 115, 97, 103, 101, 45, 105, 100>>
BodyText == <<98, 111, 100, 121>>
MessageBytes == MessageCommand \o <<LF>> \o MessageIdKey \o <<COLON, 49, LF, LF>> \o BodyText \o <<NUL>>
SizedBytes == HeadSized \o <<NUL, NUL>>
Units == {"LF", "SEND", "MESSAGE", "SIZED"}
UnitBytes(u) ==
    IF u = "LF" THEN <<LF>>
    ELSE IF u = "SEND" THEN SendBytes
    ELSE IF u = "MESSAGE" THEN MessageBytes
    ELSE SizedBytes

RECURSIVE UnitsBytes(_)
UnitsBytes(us) == IF Len(us) = 0 THEN <<>> ELSE UnitBytes(us[1]) \o UnitsBytes(Tail(us))

\* BytesMut::from(&data[..]): the whole input is in the buffer before decode is called
WholeInit ==
    /\ sample \in {[kind |-> "units", units |-> us] :
                      us \in UNION {[1..n -> Units] : n \in 0..MaxUnits}}
    /\ stream = UnitsBytes(sample.units)
    /\ chunk = 1
    /\ fed = Len(stream)
    /\ buf = stream
    /\ items = <<>>
    /\ dstate = "ready"

\* the decoder at rest, for the runs of the connection manager
CodecIdle ==
    /\ stream = <<>>
    /\ chunk = 1
    /\ fed = 0
    /\ buf = <<>>
    /\ items = <<>>
    /\ dstate = "more"
    /\ sample = NoFrame

\* ------------------------------------------------------ connection: data

NoSub == -1

\* Frame::new(command) with its headers added in order
Frame(command, headers) == FrameItem(command, headers, <<>>)

\* str::to_lowercase on the header names that occur
to_lowercase(k) ==
    CASE k = "Destination" -> "destination"
      [] k = "Receipt-Id" -> "receipt-id"
      [] OTHER -> k

\* Frame::get_header: the first value whose key is exactly key, "" for None
RECURSIVE FirstHeader(_, _)
FirstHeader(headers, key) ==
    IF Len(headers) = 0 THEN ""
    ELSE IF headers[1][1] = key THEN headers[1][2]
    ELSE FirstHeader(Tail(headers), key)

get_header(f, key) == FirstHeader(f.headers, key)

\* the header scan of the MESSAGE branch: the last value whose lower-cased
\* key is key, "" for None
RECURSIVE LastHeaderCI(_, _, _)
LastHeaderCI(headers, key, found) ==
    IF Len(headers) = 0 THEN found
    ELSE LastHeaderCI(Tail(headers), key,
             IF to_lowercase(headers[1][1]) = key THEN headers[1][2] ELSE found)

\* The tasks of the application and the bounds of what they do
Tasks == {"t1", "t2"}
MaxClose == 2
MaxOps == 2
OutCap == 2
WireCap == 1
InCap == 1
SubCap == 2
MaxSubs == 2
MaxPending == 3

Idle == [op |-> "idle", pc |-> "", id |-> "", mid |-> "", dest |-> "", ack |-> "",
         headers |-> <<>>, pos |-> 0, rid |-> "", chan |-> 0, res |-> "",
         early |-> FALSE, routed |-> FALSE, drop |-> FALSE]

\* Option<Duration>, in milliseconds
None == [some |-> FALSE, d |-> 0]
Some(d) == [some |-> TRUE, d |-> d]

\* the state after Connection::connect(addr, login, passcode, hb) has built
\* the channels and the maps, before the manager task has run
ConnInitWith(hb) ==
    /\ client_hb = hb
    /\ server_heartbeat = "0,0"
    /\ send_interval = None
    /\ recv_interval = None
    /\ since_received = 0
    /\ since_sent = 0
    /\ since_write = 0
    /\ tick_in = 0
    /\ slept = 0
    /\ connect_result = "none"
    /\ pc = "unspawned"
    /\ backoff_secs = 1
    /\ shutdown_sub = NoSub
    /\ link = "none"
    /\ wire = <<>>
    /\ netIn = <<>>
    /\ connected = FALSE
    /\ cur = NoFrame
    /\ need_pending = FALSE
    /\ subs_snapshot = <<>>
    /\ outQ = <<>>
    /\ inQ = <<>>
    /\ subscriptions = <<>>
    /\ sub_id_counter = 1
    /\ subQ = <<>>
    /\ rxAlive = <<>>
    /\ pending = <<>>
    /\ pendingLock = "free"
    /\ subsLock = "free"
    /\ pending_receipts = <<>>
    /\ receipt_counter_s = 1
    /\ receipt_counter_c = 1
    /\ oneshot = <<>>
    /\ genIds = <<>>
    /\ closeCalls = 0
    /\ call = [t \in Tasks |-> Idle]
    /\ ops = 0
    /\ opened = 0
    /\ rejected = FALSE
    /\ held = <<>>
    /\ heldAtDrop = <<>>
    /\ resubbed = {}
    /\ fails = 0
    /\ served = 0
    /\ received = <<>>
    /\ readLog = <<>>

ConnInit == ConnInitWith("0,0")

Init == CodecIdle /\ ConnInit

\* -------------------------------------------- connection: the manager task

\* Connection::connect: creates the channels and the shared maps, spawns the
\* manager task and returns the handle
Connect ==
    /\ pc = "unspawned"
    /\ pc' = "top"
    /\ connect_result' = "Ok"
    /\ UNCHANGED <<backoff_secs, shutdown_sub, link, wire, netIn, connected, cur,
                   need_pending, subs_snapshot>>
    /\ UNCHANGED <<codecVars, obsVars, hbVars, chanVars, subVars, rcptVars, appVars, histVars>>

\* broadcast::Receiver::recv / try_recv on a receiver with n unread values in
\* a channel of capacity 1: with more than one unread the receiver has lagged,
\* gets Err(Lagged) and is left with the newest value
RecvIsOk(n) == n = 1
AfterRecv(n) == IF n >= 2 THEN 1 ELSE 0

\* a write to the transport waits while the send buffer is full
CanWrite == link = "up" => Len(wire) < WireCap

\* the top of the reconnect loop: shutdown_tx_clone.subscribe()
M_Subscribe ==
    /\ pc = "top"
    /\ shutdown_sub' = 0
    /\ pc' = "select"
    /\ UNCHANGED <<connect_result, backoff_secs, link, wire, netIn, connected, cur,
                   need_pending, subs_snapshot>>
    /\ UNCHANGED <<codecVars, obsVars, hbVars, chanVars, subVars, rcptVars, appVars, histVars>>

\* select! { shutdown_sub.recv() => break, ready(()) => {} }: either branch
\* that is ready may be taken
M_SelectTop ==
    /\ pc = "select"
    /\ \E branch \in {"recv", "ready"} :
          IF branch = "recv"
          THEN /\ shutdown_sub >= 1
               /\ pc' = "exited"
               /\ shutdown_sub' = NoSub
          ELSE /\ pc' = "connecting"
               /\ UNCHANGED shutdown_sub
    /\ UNCHANGED <<connect_result, backoff_secs, link, wire, netIn, connected, cur,
                   need_pending, subs_snapshot>>
    /\ UNCHANGED <<codecVars, obsVars, hbVars, chanVars, subVars, rcptVars, appVars, histVars>>

\* TcpStream::connect returns Ok: a new transport
M_ConnectOk ==
    /\ pc = "connecting"
    /\ link' = "up"
    /\ wire' = <<>>
    /\ netIn' = <<>>
    /\ connected' = FALSE
    /\ opened' = IF opened < 2 THEN opened + 1 ELSE opened
    /\ resubbed' = {}
    /\ pc' = "sendConnect"
    /\ UNCHANGED <<connect_result, backoff_secs, shutdown_sub, cur, need_pending,
                   subs_snapshot, rejected, held, heldAtDrop, fails>>
    /\ UNCHANGED <<codecVars, obsVars, hbVars, chanVars, subVars, rcptVars, appVars>>

\* The failed attempts in a row are counted up to MaxFails, where the delay
\* has long reached its ceiling.
MaxFails == 7
FailedAgain(n) == IF n < MaxFails THEN n + 1 ELSE n

\* TcpStream::connect returns Err: sleep for the backoff
M_ConnectErr ==
    /\ pc = "connecting"
    /\ pc' = "sleep"
    /\ fails' = FailedAgain(fails)
    /\ UNCHANGED <<connect_result, backoff_secs, shutdown_sub, link, wire, netIn, connected,
                   cur, need_pending, subs_snapshot>>
    /\ UNCHANGED <<opened, rejected, held, heldAtDrop, resubbed>>
    /\ UNCHANGED <<codecVars, obsVars, hbVars, chanVars, subVars, rcptVars, appVars>>

ConnectFrame ==
    Frame("CONNECT", << <<"accept-version", "1.2">>, <<"host", "/">>, <<"login", "l">>,
                        <<"passcode", "p">>, <<"heart-beat", client_hb>> >>)

\* framed.send(CONNECT): on an error sleep for the backoff and start over
M_SendConnect ==
    /\ pc = "sendConnect"
    /\ CanWrite
    /\ IF link = "up"
       THEN /\ wire' = Append(wire, ConnectFrame)
            /\ pc' = "handshake"
       ELSE /\ pc' = "sleep"
            /\ UNCHANGED wire
    /\ fails' = IF link = "up" THEN fails ELSE FailedAgain(fails)
    /\ UNCHANGED <<connect_result, backoff_secs, shutdown_sub, link, netIn, connected, cur,
                   need_pending, subs_snapshot>>
    /\ UNCHANGED <<opened, rejected, held, heldAtDrop, resubbed>>
    /\ UNCHANGED <<codecVars, obsVars, chanVars, subVars, rcptVars, appVars>>
    /\ server_heartbeat' = IF link = "up" THEN "0,0" ELSE server_heartbeat
    /\ UNCHANGED <<client_hb, send_interval, recv_interval, since_received, since_sent, since_write, tick_in, slept>>

\* the handshake loop, shutdown branch: leaves the loop
M_HandshakeShutdown ==
    /\ pc = "handshake"
    /\ shutdown_sub >= 1
    /\ shutdown_sub' = AfterRecv(shutdown_sub)
    /\ pc' = "clearPending"
    /\ UNCHANGED <<connect_result, backoff_secs, link, wire, netIn, connected, cur,
                   need_pending, subs_snapshot>>
    /\ UNCHANGED <<codecVars, obsVars, hbVars, chanVars, subVars, rcptVars, appVars, histVars>>

\* the handshake loop, framed.next(): CONNECTED, the end of the stream and an
\* error leave the loop; heartbeats and other frames are skipped
M_HandshakeItem ==
    /\ pc = "handshake"
    /\ IF Len(netIn) > 0
       THEN LET item == Head(netIn)
            IN  /\ netIn' = Tail(netIn)
                /\ IF item.kind = "frame" /\ item.command = "CONNECTED"
                   THEN /\ connected' = TRUE
                        /\ pc' = "clearPending"
                   ELSE UNCHANGED <<connected, pc>>
                /\ rejected' = (rejected \/ (item.kind = "frame" /\ item.command = "ERROR"
                                             /\ opened = 1))
       ELSE /\ link = "down"
            /\ pc' = "clearPending"
            /\ UNCHANGED <<netIn, connected, rejected>>
    /\ UNCHANGED <<connect_result, backoff_secs, shutdown_sub, link, wire, cur,
                   need_pending, subs_snapshot, opened, held, heldAtDrop, resubbed, fails>>
    /\ UNCHANGED <<codecVars, obsVars, chanVars, subVars, rcptVars, appVars>>
    /\ server_heartbeat' =
           IF Len(netIn) > 0 /\ Head(netIn).kind = "frame" /\ Head(netIn).command = "CONNECTED"
           THEN LastHeaderCI(Head(netIn).headers, "heart-beat", server_heartbeat)
           ELSE server_heartbeat
    /\ UNCHANGED <<client_hb, send_interval, recv_interval, since_received, since_sent, since_write, tick_in, slept>>

\* The heart-beat values of the model, in milliseconds
MaxHb == 6
HbValues == {0, 2, MaxHb}
HbText(a, b) == ToString(a) \o "," \o ToString(b)

\* one field of the heart-beat header: s.trim().parse::<u64>().ok().unwrap_or(0)
HbField(s) ==
    IF \E n \in HbValues : s = ToString(n)
    THEN CHOOSE n \in HbValues : s = ToString(n)
    ELSE 0

\* the texts a field of the header holds in the model: a value, nothing, or
\* something that is not a number
HbFields == {ToString(n) : n \in HbValues} \cup {"", "x"}

\* parse_heartbeat_header: the first two comma separated fields, 0 for a
\* field that is missing or is not a number
parse_heartbeat_header(header) ==
    IF \E a, b \in HbFields : header = a \o "," \o b
    THEN LET f == CHOOSE f \in HbFields \X HbFields : header = f[1] \o "," \o f[2]
         IN  <<HbField(f[1]), HbField(f[2])>>
    ELSE <<HbField(header), 0>>

\* std::cmp::max
Max(a, b) == IF a >= b THEN a ELSE b

\* a negotiation in which a zero on either side disables the direction
NegotiateZeroDisables(client_out, client_in, server_out, server_in) ==
    LET negotiated_out_ms == IF client_out = 0 \/ server_in = 0 THEN 0
                             ELSE Max(client_out, server_in)
        negotiated_in_ms == IF client_in = 0 \/ server_out = 0 THEN 0
                            ELSE Max(client_in, server_out)
    IN  <<IF negotiated_out_ms = 0 THEN None ELSE Some(negotiated_out_ms),
          IF negotiated_in_ms = 0 THEN None ELSE Some(negotiated_in_ms)>>

\* negotiate_heartbeats: <<outgoing, incoming>>
negotiate_heartbeats(client_out, client_in, server_out, server_in) ==
    LET negotiated_out_ms == Max(client_out, server_in)
        negotiated_in_ms == Max(client_in, server_out)
    IN  <<IF negotiated_out_ms = 0 THEN None ELSE Some(negotiated_out_ms),
          IF negotiated_in_ms = 0 THEN None ELSE Some(negotiated_in_ms)>>

\* a map that keeps its entries when it is told to clear
NotCleared(p) == p

\* HashMap::clear
Cleared(p) == <<>>

\* after the handshake loop: the intervals are negotiated, the two time stamps
\* are set, and pending_clone.lock().await; p.clear()
M_ClearPending ==
    /\ pc = "clearPending"
    /\ pendingLock = "free"
    /\ pending' = Cleared(pending)
    /\ pc' = "snapshot"
    /\ UNCHANGED <<connect_result, backoff_secs, shutdown_sub, link, wire, netIn, connected,
                   cur, need_pending, subs_snapshot>>
    /\ UNCHANGED <<subscriptions, sub_id_counter, subQ, rxAlive, pendingLock, subsLock>>
    /\ UNCHANGED <<codecVars, obsVars, chanVars, rcptVars, appVars, histVars>>
    /\ LET c == parse_heartbeat_header(client_hb)
           v == parse_heartbeat_header(server_heartbeat)
           n == negotiate_heartbeats(c[1], c[2], v[1], v[2])
       IN  /\ send_interval' = n[1]
           /\ recv_interval' = n[2]
    /\ since_received' = 0
    /\ since_sent' = 0
    /\ since_write' = 0
    /\ UNCHANGED <<client_hb, server_heartbeat, tick_in, slept>>

\* the sequences that list every element of S once: the orders in which a
\* HashMap may be iterated
Perms(S) == {p \in [1..Cardinality(S) -> S] : \A i, j \in 1..Cardinality(S) : p[i] = p[j] => i = j}

\* the ResubEntry list of the destinations in the given order
RECURSIVE SnapshotOf(_, _)
SnapshotOf(map, order) ==
    IF Len(order) = 0 THEN <<>>
    ELSE [i \in 1..Len(map[order[1]]) |->
             [dest |-> order[1], id |-> map[order[1]][i].id, ack |-> map[order[1]][i].ack,
              headers |-> map[order[1]][i].headers]]
         \o SnapshotOf(map, Tail(order))

\* the resubscribe snapshot, taken under the lock of subscriptions
M_Snapshot ==
    /\ pc = "snapshot"
    /\ subsLock = "free"
    /\ \E order \in Perms(DOMAIN subscriptions) :
          subs_snapshot' = SnapshotOf(subscriptions, order)
    /\ pc' = "resub"
    /\ UNCHANGED <<connect_result, backoff_secs, shutdown_sub, link, wire, netIn, connected,
                   cur, need_pending>>
    /\ UNCHANGED <<codecVars, obsVars, hbVars, chanVars, subVars, rcptVars, appVars, histVars>>

\* the difference of two time stamps, counted up to a ceiling above which
\* the code does not tell the values apart
Elapsed(n, ceiling) == IF n < ceiling THEN n + 1 ELSE n

SubscribeFrame(id, dest, ack, headers) ==
    Frame("SUBSCRIBE", << <<"id", id>>, <<"destination", dest>>, <<"ack", ack>> >> \o headers)

\* let _ = sink.send(SUBSCRIBE).await for the next snapshot entry: an error
\* is ignored, the write may take time, and writer_last_sent is not stored
M_Resub ==
    /\ pc = "resub"
    /\ Len(subs_snapshot) > 0
    /\ CanWrite
    /\ LET e == Head(subs_snapshot)
           f == SubscribeFrame(e.id, e.dest, e.ack, e.headers)
       IN  /\ wire' = IF link = "up" THEN Append(wire, f) ELSE wire
           /\ resubbed' = IF link = "up" THEN resubbed \cup {f} ELSE resubbed
    /\ subs_snapshot' = Tail(subs_snapshot)
    /\ \E took \in {0, 1} :
          /\ since_sent' = IF took = 1 THEN Elapsed(since_sent, send_interval.d)
                           ELSE since_sent
          /\ since_received' = IF took = 1 /\ recv_interval.some
                               THEN Elapsed(since_received, recv_interval.d * 2 + 1)
                               ELSE since_received
    /\ since_write' = IF link = "up" THEN 0 ELSE since_write
    /\ UNCHANGED <<client_hb, server_heartbeat, send_interval, recv_interval, tick_in, slept>>
    /\ UNCHANGED <<connect_result, pc, backoff_secs, shutdown_sub, link, netIn, connected,
                   cur, need_pending>>
    /\ UNCHANGED <<opened, rejected, held, heldAtDrop, fails>>
    /\ UNCHANGED <<codecVars, obsVars, chanVars, subVars, rcptVars, appVars>>

\* every snapshot entry is written: backoff_secs = 1 and the steady-state loop
M_EnterSteady ==
    /\ pc = "resub"
    /\ Len(subs_snapshot) = 0
    /\ backoff_secs' = 1
    /\ pc' = "steady"
    /\ fails' = IF connected THEN 0 ELSE fails
    /\ UNCHANGED <<connect_result, shutdown_sub, link, wire, netIn, connected, cur,
                   need_pending, subs_snapshot>>
    /\ UNCHANGED <<opened, rejected, held, heldAtDrop, resubbed>>
    /\ UNCHANGED <<codecVars, obsVars, chanVars, subVars, rcptVars, appVars>>
    /\ tick_in' = 0
    /\ slept' = 0
    /\ UNCHANGED <<client_hb, server_heartbeat, send_interval, recv_interval, since_received, since_sent, since_write>>

\* steady state, shutdown branch: sink.close() and break 'conn
M_Shutdown ==
    /\ pc = "steady"
    /\ shutdown_sub >= 1
    /\ shutdown_sub' = AfterRecv(shutdown_sub)
    /\ link' = "down"
    /\ pc' = "afterConn"
    /\ UNCHANGED <<connect_result, backoff_secs, wire, netIn, connected, cur, need_pending,
                   subs_snapshot>>
    /\ UNCHANGED <<codecVars, obsVars, hbVars, chanVars, subVars, rcptVars, appVars, histVars>>

\* steady state, out_rx.recv(): the item is taken from the channel and written;
\* when the write fails the loop is left
M_Outbound ==
    /\ pc = "steady"
    /\ Len(outQ) > 0
    /\ CanWrite
    /\ outQ' = Tail(outQ)
    /\ IF link = "up"
       THEN /\ wire' = Append(wire, Head(outQ))
            /\ UNCHANGED pc
       ELSE /\ pc' = "afterConn"
            /\ UNCHANGED wire
    /\ UNCHANGED <<connect_result, backoff_secs, shutdown_sub, link, netIn, connected, cur,
                   need_pending, subs_snapshot>>
    /\ UNCHANGED <<inQ, codecVars, obsVars, subVars, rcptVars, appVars, histVars>>
    /\ since_sent' = IF link = "up" THEN 0 ELSE since_sent
    /\ since_write' = IF link = "up" THEN 0 ELSE since_write
    /\ slept' = 0
    /\ UNCHANGED <<client_hb, server_heartbeat, send_interval, recv_interval, since_received, tick_in>>

\* the RECEIPT branch: remove the sender registered for the receipt id and
\* resolve it; the tasks that use the receipt id note when the RECEIPT came
RouteReceipt(f) ==
    LET rid == get_header(f, "receipt-id")
    IN  /\ IF rid # "" /\ rid \in DOMAIN pending_receipts
           THEN /\ pending_receipts' =
                       [k \in DOMAIN pending_receipts \ {rid} |-> pending_receipts[k]]
                /\ oneshot' = [oneshot EXCEPT ![pending_receipts[rid]] = "sent"]
           ELSE UNCHANGED <<pending_receipts, oneshot>>
        /\ call' = [t \in Tasks |->
                       IF rid # "" /\ call[t].rid = rid
                       THEN IF call[t].pc \in {"reg", "send"}
                            THEN [call[t] EXCEPT !.early = TRUE]
                            ELSE IF call[t].pc = "wait"
                                    \/ (call[t].op = "send_frame_with_receipt"
                                        /\ call[t].pc = "done" /\ call[t].res = "Ok")
                            THEN [call[t] EXCEPT !.routed = TRUE]
                            ELSE call[t]
                       ELSE call[t]]

\* steady state, stream.next(): a heartbeat is noted, a MESSAGE is routed to
\* the subscriptions, a RECEIPT resolves its registration, any other frame goes
\* to the inbound channel; the end of the stream or an error leaves the loop
M_Inbound ==
    /\ pc = "steady"
    /\ IF Len(netIn) > 0
       THEN LET item == Head(netIn)
            IN  /\ netIn' = Tail(netIn)
                /\ IF item.kind = "heartbeat"
                   THEN UNCHANGED <<pc, cur, pending_receipts, oneshot, call>>
                   ELSE IF item.command = "MESSAGE"
                   THEN /\ cur' = item
                        /\ pc' = "routeNeed"
                        /\ UNCHANGED <<pending_receipts, oneshot, call>>
                   ELSE IF item.command = "RECEIPT"
                   THEN /\ RouteReceipt(item)
                        /\ UNCHANGED <<pc, cur>>
                   ELSE /\ cur' = item
                        /\ pc' = "forward"
                        /\ UNCHANGED <<pending_receipts, oneshot, call>>
       ELSE /\ link = "down"
            /\ pc' = "afterConn"
            /\ UNCHANGED <<netIn, cur, pending_receipts, oneshot, call>>
    /\ UNCHANGED <<connect_result, backoff_secs, shutdown_sub, link, wire, connected,
                   need_pending, subs_snapshot>>
    /\ UNCHANGED <<receipt_counter_s, receipt_counter_c, genIds, closeCalls, ops>>
    /\ UNCHANGED <<codecVars, obsVars, chanVars, subVars, histVars>>
    /\ since_received' = IF Len(netIn) > 0 THEN 0 ELSE since_received
    /\ slept' = 0
    /\ UNCHANGED <<client_hb, server_heartbeat, send_interval, recv_interval, since_sent, since_write, tick_in>>

dest_opt(f) == LastHeaderCI(f.headers, "destination", "")
sub_opt(f) == LastHeaderCI(f.headers, "subscription", "")
msg_id_opt(f) == LastHeaderCI(f.headers, "message-id", "")

\* whether the MESSAGE has to be tracked as pending, decided under the lock of
\* subscriptions
NeedPending(f) ==
    IF sub_opt(f) # ""
    THEN \E d \in DOMAIN subscriptions : \E i \in 1..Len(subscriptions[d]) :
            subscriptions[d][i].id = sub_opt(f) /\ subscriptions[d][i].ack # "auto"
    ELSE IF dest_opt(f) # ""
    THEN /\ dest_opt(f) \in DOMAIN subscriptions
         /\ \E i \in 1..Len(subscriptions[dest_opt(f)]) :
               subscriptions[dest_opt(f)][i].ack # "auto"
    ELSE FALSE

M_RouteNeed ==
    /\ pc = "routeNeed"
    /\ (sub_opt(cur) # "" \/ dest_opt(cur) # "") => subsLock = "free"
    /\ need_pending' = NeedPending(cur)
    /\ pc' = "routePend"
    /\ UNCHANGED <<connect_result, backoff_secs, shutdown_sub, link, wire, netIn, connected,
                   cur, subs_snapshot>>
    /\ UNCHANGED <<codecVars, obsVars, hbVars, chanVars, subVars, rcptVars, appVars, histVars>>

\* p.entry(id).or_insert_with(VecDeque::new).push_back((msg_id, f))
PushPending(p, id, mid, f) ==
    IF id \in DOMAIN p
    THEN [p EXCEPT ![id] = Append(@, <<mid, f>>)]
    ELSE (id :> << <<mid, f>> >>) @@ p

\* the same for the id of every entry of vec, in order
RECURSIVE PushPendingAll(_, _, _, _)
PushPendingAll(p, vec, mid, f) ==
    IF Len(vec) = 0 THEN p
    ELSE PushPendingAll(PushPending(p, vec[1].id, mid, f), Tail(vec), mid, f)

\* the MESSAGE is added to the pending map: under its subscription id when it
\* names one, otherwise, with the lock of subscriptions taken first, under
\* every subscription of its destination
M_RoutePend ==
    /\ pc = "routePend"
    /\ IF msg_id_opt(cur) # "" /\ need_pending
       THEN IF sub_opt(cur) # ""
            THEN /\ pendingLock = "free"
                 /\ pending' = PushPending(pending, sub_opt(cur), msg_id_opt(cur), cur)
                 /\ pc' = "deliver"
                 /\ UNCHANGED subsLock
            ELSE /\ subsLock = "free"
                 /\ IF dest_opt(cur) \in DOMAIN subscriptions
                    THEN /\ subsLock' = "mgr"
                         /\ pc' = "routePendB"
                    ELSE /\ pc' = "deliver"
                         /\ UNCHANGED subsLock
                 /\ UNCHANGED pending
       ELSE /\ pc' = "deliver"
            /\ UNCHANGED <<pending, subsLock>>
    /\ UNCHANGED <<connect_result, backoff_secs, shutdown_sub, link, wire, netIn, connected,
                   cur, need_pending, subs_snapshot>>
    /\ UNCHANGED <<subscriptions, sub_id_counter, subQ, rxAlive, pendingLock>>
    /\ UNCHANGED <<codecVars, obsVars, hbVars, chanVars, rcptVars, appVars, histVars>>

\* with the lock of subscriptions held: pending_clone.lock().await and the
\* push for every entry of the destination
M_RoutePendB ==
    /\ pc = "routePendB"
    /\ pendingLock = "free"
    /\ pending' = PushPendingAll(pending, subscriptions[dest_opt(cur)], msg_id_opt(cur), cur)
    /\ subsLock' = "free"
    /\ pc' = "deliver"
    /\ UNCHANGED <<connect_result, backoff_secs, shutdown_sub, link, wire, netIn, connected,
                   cur, need_pending, subs_snapshot>>
    /\ UNCHANGED <<subscriptions, sub_id_counter, subQ, rxAlive, pendingLock>>
    /\ UNCHANGED <<codecVars, obsVars, hbVars, chanVars, rcptVars, appVars, histVars>>

\* mpsc::Sender::try_send on the channel of subscription id
TrySendOk(q, id) == rxAlive[id] /\ Len(q[id]) < SubCap

\* a channel that takes the new frame ahead of the waiting ones
TrySendOnFront(ch, f) == <<f>> \o ch

\* the channel after a try_send that returned Ok: the frame is at the back
TrySendOn(ch, f) == Append(ch, f)

\* vec.retain(|entry| entry.sender.try_send(f.clone()).is_ok()): the entries
\* kept and the channels afterwards
RECURSIVE RetainSend(_, _, _, _)
RetainSend(vec, kept, q, f) ==
    IF Len(vec) = 0 THEN [vec |-> kept, q |-> q]
    ELSE IF TrySendOk(q, vec[1].id)
         THEN RetainSend(Tail(vec), Append(kept, vec[1]),
                         [q EXCEPT ![vec[1].id] = TrySendOn(@, f)], f)
         ELSE RetainSend(Tail(vec), kept, q, f)

\* a delivery by subscription id that reaches every endpoint with room
SendToAll(q, id, f) ==
    [k \in DOMAIN q |-> IF TrySendOk(q, k) THEN TrySendOn(q[k], f) ELSE q[k]]

\* the delivery by subscription id: every entry is retained
SendToId(q, id, f) ==
    IF (\E d \in DOMAIN subscriptions : \E i \in 1..Len(subscriptions[d]) :
            subscriptions[d][i].id = id) /\ TrySendOk(q, id)
    THEN [q EXCEPT ![id] = TrySendOn(@, f)]
    ELSE q

\* Deliver to subscribers
M_Deliver ==
    /\ pc = "deliver"
    /\ IF sub_opt(cur) # ""
       THEN /\ subsLock = "free"
            /\ subQ' = SendToId(subQ, sub_opt(cur), cur)
            /\ UNCHANGED subscriptions
       ELSE IF dest_opt(cur) # ""
       THEN /\ subsLock = "free"
            /\ IF dest_opt(cur) \in DOMAIN subscriptions
               THEN LET r == RetainSend(subscriptions[dest_opt(cur)], <<>>, subQ, cur)
                    IN  /\ subscriptions' = [subscriptions EXCEPT ![dest_opt(cur)] = r.vec]
                        /\ subQ' = r.q
               ELSE UNCHANGED <<subscriptions, subQ>>
       ELSE UNCHANGED <<subscriptions, subQ>>
    /\ pc' = "forward"
    /\ UNCHANGED <<connect_result, backoff_secs, shutdown_sub, link, wire, netIn, connected,
                   cur, need_pending, subs_snapshot>>
    /\ UNCHANGED <<sub_id_counter, rxAlive, pending, pendingLock, subsLock>>
    /\ UNCHANGED <<codecVars, obsVars, hbVars, chanVars, rcptVars, appVars, histVars>>

\* let _ = in_tx.send(f).await: waits while the inbound channel is full
M_Forward ==
    /\ pc = "forward"
    /\ Len(inQ) < InCap
    /\ inQ' = Append(inQ, cur)
    /\ cur' = NoFrame
    /\ need_pending' = FALSE
    /\ pc' = "steady"
    /\ UNCHANGED <<connect_result, backoff_secs, shutdown_sub, link, wire, netIn, connected,
                   subs_snapshot>>
    /\ UNCHANGED <<outQ, codecVars, obsVars, subVars, rcptVars, appVars, histVars>>
    /\ slept' = 0
    /\ UNCHANGED <<client_hb, server_heartbeat, send_interval, recv_interval, since_received, since_sent, since_write, tick_in>>

\* the period of hb_tick when no outgoing interval was negotiated
IdleTick == 86400000

\* a pulse at every tick of an enabled direction
HeartbeatAtEveryTick(interval, since) == interval.some

\* if let Some(dur) = send_interval, and at least dur since writer_last_sent
HeartbeatDue(interval, since) == interval.some /\ since >= interval.d

\* steady state, hb_tick.tick(): a heartbeat is written when the outgoing
\* interval has passed since the last write; the timer is set for its next period
M_HbTick ==
    /\ pc = "steady"
    /\ tick_in = 0
    /\ LET due == HeartbeatDue(send_interval, since_sent)
       IN  /\ due => CanWrite
           /\ IF due /\ link = "up"
              THEN /\ wire' = Append(wire, Heartbeat)
                   /\ since_sent' = 0
                   /\ since_write' = 0
                   /\ UNCHANGED pc
              ELSE IF due
              THEN /\ pc' = "afterConn"
                   /\ UNCHANGED <<wire, since_sent, since_write>>
              ELSE UNCHANGED <<pc, wire, since_sent, since_write>>
    /\ tick_in' = IF send_interval.some THEN send_interval.d ELSE IdleTick
    /\ slept' = 0
    /\ UNCHANGED <<connect_result, backoff_secs, shutdown_sub, link, netIn, connected, cur,
                   need_pending, subs_snapshot>>
    /\ UNCHANGED <<client_hb, server_heartbeat, send_interval, recv_interval, since_received>>
    /\ UNCHANGED <<codecVars, obsVars, chanVars, subVars, rcptVars, appVars, histVars>>

\* the sleep of the watchdog branch, made anew by every pass of the loop, is over
WatchdogDue == recv_interval.some /\ slept >= recv_interval.d \div 2

\* steady state, the watchdog branch: when more than twice the incoming
\* interval has passed since the last item, sink.close() and break 'conn
M_Watchdog ==
    /\ pc = "steady"
    /\ WatchdogDue
    /\ IF since_received > recv_interval.d * 2
       THEN /\ link' = "down"
            /\ pc' = "afterConn"
       ELSE UNCHANGED <<link, pc>>
    /\ slept' = 0
    /\ UNCHANGED <<connect_result, backoff_secs, shutdown_sub, wire, netIn, connected, cur,
                   need_pending, subs_snapshot>>
    /\ UNCHANGED <<client_hb, server_heartbeat, send_interval, recv_interval, since_received,
                   since_sent, since_write, tick_in>>
    /\ UNCHANGED <<codecVars, obsVars, chanVars, subVars, rcptVars, appVars, histVars>>

\* steady state, the outbound branch with every sender of the channel
\* dropped and nothing left in it: out_rx.recv() is None, break 'conn
M_OutClosed ==
    /\ pc = "steady"
    /\ connect_result = "Dropped"
    /\ Len(outQ) = 0
    /\ pc' = "afterConn"
    /\ slept' = 0
    /\ UNCHANGED <<connect_result, backoff_secs, shutdown_sub, link, wire, netIn, connected,
                   cur, need_pending, subs_snapshot>>
    /\ UNCHANGED <<client_hb, server_heartbeat, send_interval, recv_interval, since_received,
                   since_sent, since_write, tick_in>>
    /\ UNCHANGED <<codecVars, obsVars, chanVars, subVars, rcptVars, appVars, histVars>>

\* after the steady-state loop: shutdown_sub.try_recv().is_ok() leaves the
\* reconnect loop, anything else sleeps for the backoff
M_TryRecv ==
    /\ pc = "afterConn"
    /\ IF RecvIsOk(shutdown_sub)
       THEN /\ pc' = "exited"
            /\ shutdown_sub' = NoSub
            /\ link' = "none"
       ELSE /\ pc' = "sleep"
            /\ shutdown_sub' = AfterRecv(shutdown_sub)
            /\ UNCHANGED link
    /\ fails' = IF RecvIsOk(shutdown_sub) THEN fails ELSE FailedAgain(fails)
    /\ UNCHANGED <<connect_result, backoff_secs, wire, netIn, connected, cur, need_pending,
                   subs_snapshot>>
    /\ UNCHANGED <<opened, rejected, held, heldAtDrop, resubbed>>
    /\ UNCHANGED <<codecVars, obsVars, hbVars, chanVars, subVars, rcptVars, appVars>>

NextBackoff(b) == IF b * 2 < 30 THEN b * 2 ELSE 30

\* the sleep is over: the backoff is doubled and the loop starts over, its
\* transport and its broadcast receiver dropped
M_Wake ==
    /\ pc = "sleep"
    /\ backoff_secs' = NextBackoff(backoff_secs)
    /\ shutdown_sub' = NoSub
    /\ link' = "none"
    /\ pc' = "top"
    /\ UNCHANGED <<connect_result, wire, netIn, connected, cur, need_pending, subs_snapshot>>
    /\ UNCHANGED <<codecVars, obsVars, hbVars, chanVars, subVars, rcptVars, appVars, histVars>>

\* ------------------------------------------------- the server and the network

\* the manager is reading the transport
InSession == pc \in {"handshake", "steady"}

\* the number of entries of the pending map
RECURSIVE PendingCount(_)
PendingCount(p) ==
    IF DOMAIN p = {} THEN 0
    ELSE LET k == CHOOSE x \in DOMAIN p : TRUE
         IN  Len(p[k]) + PendingCount([j \in DOMAIN p \ {k} |-> p[j]])

\* an item the server has sent reaches the client
ServerSends(item) ==
    /\ link = "up"
    /\ InSession
    /\ Len(netIn) = 0
    /\ (item.kind = "frame" /\ item.command = "MESSAGE") => PendingCount(pending) < MaxPending
    /\ netIn' = <<item>>
    /\ UNCHANGED <<connect_result, pc, backoff_secs, shutdown_sub, link, wire, connected,
                   cur, need_pending, subs_snapshot>>
    /\ UNCHANGED <<codecVars, hbVars, chanVars, subVars, rcptVars, appVars, histVars>>

\* the server sends an item
EnvSend(item) ==
    /\ ServerSends(item)
    /\ UNCHANGED obsVars

\* the next frame the client wrote leaves the transport at the server's end
ServerReads ==
    /\ link = "up"
    /\ Len(wire) > 0
    /\ wire' = Tail(wire)
    /\ UNCHANGED <<connect_result, pc, backoff_secs, shutdown_sub, link, netIn, connected,
                   cur, need_pending, subs_snapshot>>
    /\ UNCHANGED <<codecVars, hbVars, chanVars, subVars, rcptVars, appVars, histVars>>

\* the server reads the next frame the client wrote to the transport
EnvRead ==
    /\ ServerReads
    /\ UNCHANGED obsVars

\* the same, by a server that keeps what it reads
EnvReadKept ==
    /\ ServerReads
    /\ received' = Append(received, Head(wire))
    /\ UNCHANGED <<served, readLog>>

\* the transport fails or the server closes it
EnvDrop ==
    /\ link = "up"
    /\ link' = "down"
    /\ heldAtDrop' = held
    /\ call' = [t \in Tasks |->
                   IF call[t].pc = "wait"
                   THEN [call[t] EXCEPT !.drop = TRUE]
                   ELSE call[t]]
    /\ UNCHANGED <<connect_result, pc, backoff_secs, shutdown_sub, wire, netIn, connected,
                   cur, need_pending, subs_snapshot>>
    /\ UNCHANGED <<closeCalls, ops>>
    /\ UNCHANGED <<opened, rejected, held, resubbed, fails>>
    /\ UNCHANGED <<codecVars, obsVars, hbVars, chanVars, subVars, rcptVars>>

\* the first transport drops
FirstDrop == opened = 1 /\ EnvDrop

\* ------------------------------------------------------------ the handles

\* Connection::close: shutdown_tx.send(()), which reaches the receivers that
\* exist at this moment
Close ==
    /\ connect_result = "Ok"
    /\ closeCalls < MaxClose
    /\ closeCalls' = closeCalls + 1
    /\ shutdown_sub' = IF shutdown_sub = NoSub THEN NoSub
                       ELSE IF shutdown_sub >= 2 THEN 2 ELSE shutdown_sub + 1
    /\ UNCHANGED <<connect_result, pc, backoff_secs, link, wire, netIn, connected, cur,
                   need_pending, subs_snapshot>>
    /\ UNCHANGED <<call, ops>>
    /\ UNCHANGED <<codecVars, obsVars, hbVars, chanVars, subVars, rcptVars, histVars>>

\* Connection::next_frame: takes the next frame of the inbound channel
NextFrame ==
    /\ Len(inQ) > 0
    /\ inQ' = Tail(inQ)
    /\ UNCHANGED <<outQ, codecVars, obsVars, hbVars, mgrVars, subVars, rcptVars, appVars, histVars>>

\* the application drops the connection, its clones and its subscriptions,
\* with no call under way
DropHandles ==
    /\ connect_result = "Ok"
    /\ \A t \in Tasks : call[t].pc \in {"", "done"}
    /\ connect_result' = "Dropped"
    /\ rxAlive' = [id \in DOMAIN rxAlive |-> FALSE]
    /\ held' = <<>>
    /\ UNCHANGED <<pc, backoff_secs, shutdown_sub, link, wire, netIn, connected, cur,
                   need_pending, subs_snapshot>>
    /\ UNCHANGED <<subscriptions, sub_id_counter, subQ, pending, pendingLock, subsLock>>
    /\ UNCHANGED <<opened, rejected, heldAtDrop, resubbed, fails>>
    /\ UNCHANGED <<codecVars, obsVars, hbVars, chanVars, rcptVars, appVars>>

\* ------------------------------------------------- the manager's lifecycle

ConnectedFrame == Frame("CONNECTED", << <<"version", "1.2">> >>)
ErrorFrame == Frame("ERROR", << <<"message", "rejected">> >>)

LifeItems == {Heartbeat, ConnectedFrame, ErrorFrame}

MgrLife ==
    \/ M_Subscribe
    \/ M_SelectTop
    \/ M_ConnectOk
    \/ M_ConnectErr
    \/ M_SendConnect
    \/ M_HandshakeShutdown
    \/ M_HandshakeItem
    \/ M_ClearPending
    \/ M_Snapshot
    \/ M_EnterSteady
    \/ M_Shutdown
    \/ M_Inbound
    \/ M_Forward
    \/ M_TryRecv
    \/ M_Wake

LifeNext ==
    \/ Connect
    \/ MgrLife
    \/ \E item \in LifeItems : EnvSend(item)
    \/ EnvRead
    \/ EnvDrop
    \/ Close
    \/ NextFrame

LifeSpec == Init /\ [][LifeNext]_vars

\* the runtime keeps running the manager task while it has a step to take
LifeFairSpec == LifeSpec /\ WF_vars(MgrLife)

\* ----------------------------------------------- the handles: subscriptions

Dests == {"/q/a", "/q/b"}
AckModes == {"auto", "client", "client-individual"}
Mids == {"m1", "m2"}
SubIds == {ToString(n) : n \in 1..MaxSubs}
\* the extra headers of a subscription: a selector on the second destination
ExtraHeaders(dest) == IF dest = "/q/b" THEN << <<"selector", "x">> >> ELSE <<>>

\* a task may start an operation
CanStart(t) == connect_result = "Ok" /\ call[t].pc \in {"", "done"} /\ ops < MaxOps

\* a channel that takes the new frame ahead of the waiting ones
SendOnFront(ch, f) == <<f>> \o ch

\* mpsc::Sender::send on a channel with room: the frame goes to the back
SendOn(ch, f) == Append(ch, f)

\* outbound_tx.send(frame).await ending the operation of task t: waits while
\* the channel is full, fails when the manager has dropped the receiver
SendEnds(t, f) ==
    /\ (pc # "exited") => Len(outQ) < OutCap
    /\ outQ' = IF pc = "exited" THEN outQ ELSE SendOn(outQ, f)
    /\ call' = [call EXCEPT ![t] = [Idle EXCEPT !.op = call[t].op, !.pc = "done",
                                                !.res = IF pc = "exited" THEN "SendClosed" ELSE "Ok"]]

\* the frames a task sends with send_frame: each names its task and carries
\* the number of the operation that sent it
NumberedFrame(t, n) ==
    Frame("SEND", << <<"destination", "/q/a">>, <<"task", t>>, <<"seq", ToString(n)>> >>)

\* Connection::send_frame
SendFrame(t) ==
    /\ CanStart(t)
    /\ (pc # "exited") => Len(outQ) < OutCap
    /\ outQ' = IF pc = "exited" THEN outQ ELSE SendOn(outQ, NumberedFrame(t, ops + 1))
    /\ call' = [call EXCEPT ![t] = [Idle EXCEPT !.op = "send_frame", !.pc = "done",
                                                !.res = IF pc = "exited" THEN "SendClosed" ELSE "Ok"]]
    /\ ops' = ops + 1
    /\ UNCHANGED <<inQ, closeCalls>>
    /\ UNCHANGED <<codecVars, obsVars, hbVars, mgrVars, subVars, rcptVars, histVars>>

\* a transaction frame without its header
BareFrame(command, transaction_id) == Frame(command, <<>>)

\* Frame::new(command).header("transaction", transaction_id)
TransactionFrame(command, transaction_id) ==
    Frame(command, << <<"transaction", transaction_id>> >>)

\* Connection::begin, commit and abort: send_transaction_frame with BEGIN,
\* COMMIT or ABORT
send_transaction_frame(t, command, transaction_id) ==
    /\ CanStart(t)
    /\ (pc # "exited") => Len(outQ) < OutCap
    /\ outQ' = IF pc = "exited" THEN outQ
               ELSE SendOn(outQ, TransactionFrame(command, transaction_id))
    /\ call' = [call EXCEPT ![t] = [Idle EXCEPT !.op = command, !.pc = "done",
                                                !.id = transaction_id,
                                                !.res = IF pc = "exited" THEN "SendClosed" ELSE "Ok"]]
    /\ ops' = ops + 1
    /\ UNCHANGED <<inQ, closeCalls>>
    /\ UNCHANGED <<codecVars, obsVars, hbVars, mgrVars, subVars, rcptVars, histVars>>

\* every entry of the table, whatever its destination
Entries(map) == UNION {{map[d][i] : i \in 1..Len(map[d])} : d \in DOMAIN map}

\* a counter that hands out its value and keeps it
FetchKeep(counter) == counter

\* AtomicU64::fetch_add(1, SeqCst): the counter afterwards
FetchAdd(counter) == counter + 1

\* subscribe_with_headers, to the creation of the channel: the id is taken
\* from the counter
SubscribeStart(t, dest, ack, headers) ==
    /\ CanStart(t)
    /\ sub_id_counter <= MaxSubs
    /\ LET id == ToString(sub_id_counter)
       IN  /\ call' = [call EXCEPT ![t] = [Idle EXCEPT !.op = "subscribe", !.pc = "insert",
                                              !.id = id, !.dest = dest, !.ack = ack,
                                              !.headers = headers]]
           /\ subQ' = (id :> <<>>) @@ subQ
           /\ rxAlive' = (id :> TRUE) @@ rxAlive
    /\ sub_id_counter' = FetchAdd(sub_id_counter)
    /\ ops' = ops + 1
    /\ UNCHANGED <<subscriptions, pending, pendingLock, subsLock, closeCalls>>
    /\ UNCHANGED <<codecVars, obsVars, hbVars, mgrVars, chanVars, rcptVars, histVars>>

\* map.entry(destination).or_insert_with(Vec::new).push(entry), under the lock
SubscribeInsert(t) ==
    /\ call[t].op = "subscribe"
    /\ call[t].pc = "insert"
    /\ subsLock = "free"
    /\ LET c == call[t]
           e == [id |-> c.id, ack |-> c.ack, headers |-> c.headers]
       IN  subscriptions' = IF c.dest \in DOMAIN subscriptions
                            THEN [subscriptions EXCEPT ![c.dest] = Append(@, e)]
                            ELSE (c.dest :> <<e>>) @@ subscriptions
    /\ call' = [call EXCEPT ![t].pc = "send"]
    /\ UNCHANGED <<sub_id_counter, subQ, rxAlive, pending, pendingLock, subsLock, closeCalls, ops>>
    /\ UNCHANGED <<codecVars, obsVars, hbVars, mgrVars, chanVars, rcptVars, histVars>>

\* the SUBSCRIBE frame is sent; on an error the receiver is dropped with the
\* result
SubscribeSend(t) ==
    /\ call[t].op = "subscribe"
    /\ call[t].pc = "send"
    /\ SendEnds(t, SubscribeFrame(call[t].id, call[t].dest, call[t].ack, call[t].headers))
    /\ held' = IF pc = "exited" THEN held
               ELSE (call[t].id :> [dest |-> call[t].dest, ack |-> call[t].ack,
                                    headers |-> call[t].headers]) @@ held
    /\ rxAlive' = IF pc = "exited" THEN [rxAlive EXCEPT ![call[t].id] = FALSE] ELSE rxAlive
    /\ UNCHANGED <<subscriptions, sub_id_counter, subQ, pending, pendingLock, subsLock>>
    /\ UNCHANGED <<inQ, closeCalls, ops>>
    /\ UNCHANGED <<opened, rejected, heldAtDrop, resubbed, fails>>
    /\ UNCHANGED <<codecVars, obsVars, hbVars, mgrVars, rcptVars>>

\* vec without its first entry whose id is id
RECURSIVE RemoveFirstId(_, _)
RemoveFirstId(vec, id) ==
    IF Len(vec) = 0 THEN <<>>
    ELSE IF vec[1].id = id THEN Tail(vec)
    ELSE <<vec[1]>> \o RemoveFirstId(Tail(vec), id)

\* an unsubscribe that leaves the table as it is
UnsubscribedKept(map, id) == map

\* the table after unsubscribe: the entry removed from every list that holds
\* it, and every destination whose list is empty removed
UnsubscribedMap(map, id) ==
    LET m == [d \in DOMAIN map |-> RemoveFirstId(map[d], id)]
        keep == {d \in DOMAIN map : Len(m[d]) > 0}
    IN  [d \in keep |-> m[d]]

\* unsubscribe, the part under the lock; "subscription id not found" ends it
UnsubscribeStart(t, id) ==
    /\ CanStart(t)
    /\ subsLock = "free"
    /\ subscriptions' = UnsubscribedMap(subscriptions, id)
    /\ LET found == \E e \in Entries(subscriptions) : e.id = id
       IN  call' = [call EXCEPT ![t] = [Idle EXCEPT !.op = "unsubscribe",
                                           !.pc = IF found THEN "send" ELSE "done",
                                           !.res = IF found THEN "" ELSE "NotFound",
                                           !.id = IF found THEN id ELSE ""]]
    /\ held' = [k \in DOMAIN held \ {id} |-> held[k]]
    /\ ops' = ops + 1
    /\ UNCHANGED <<sub_id_counter, subQ, rxAlive, pending, pendingLock, subsLock, closeCalls>>
    /\ UNCHANGED <<opened, rejected, heldAtDrop, resubbed, fails>>
    /\ UNCHANGED <<codecVars, obsVars, hbVars, mgrVars, chanVars, rcptVars>>

UnsubscribeSend(t) ==
    /\ call[t].op = "unsubscribe"
    /\ call[t].pc = "send"
    /\ SendEnds(t, Frame("UNSUBSCRIBE", << <<"id", call[t].id>> >>))
    /\ UNCHANGED <<inQ, closeCalls, ops>>
    /\ UNCHANGED <<codecVars, obsVars, hbVars, mgrVars, subVars, rcptVars, histVars>>

\* queue.iter().position(|(mid, _)| mid == message_id), -1 for None
QueuePosition(queue, mid) ==
    LET idx == {i \in 1..Len(queue) : queue[i][1] = mid}
    IN  IF idx = {} THEN -1 ELSE SetMin(idx) - 1

\* the ack mode of the subscription, "client" when the table does not hold it
AckModeOf(map, id) ==
    IF \E e \in Entries(map) : e.id = id
    THEN (CHOOSE e \in Entries(map) : e.id = id).ack
    ELSE "client"

\* a removal that takes the entry at pos alone in every ack mode
RemoveOnlyAcked(queue, pos, ack_mode) ==
    SubSeq(queue, 1, pos) \o SubSeq(queue, pos + 2, Len(queue))

\* the queue after the removal: up to and including pos in client mode, the
\* entry at pos alone otherwise
RemoveAcked(queue, pos, ack_mode) ==
    IF ack_mode = "client"
    THEN SubSeq(queue, pos + 2, Len(queue))
    ELSE SubSeq(queue, 1, pos) \o SubSeq(queue, pos + 2, Len(queue))

\* p after the queue of id became q: an empty queue is removed
PendingAfter(p, id, q) ==
    IF Len(q) = 0 THEN [k \in DOMAIN p \ {id} |-> p[k]] ELSE [p EXCEPT ![id] = q]

\* ack and nack, to the lock of pending: when the queue of the subscription
\* holds the message the lock is kept for the removal
AckStart(t, op, id, mid) ==
    /\ CanStart(t)
    /\ pendingLock = "free"
    /\ LET pos == IF id \in DOMAIN pending THEN QueuePosition(pending[id], mid) ELSE -1
       IN  /\ call' = [call EXCEPT ![t] = [Idle EXCEPT !.op = op, !.id = id, !.mid = mid,
                                              !.pos = pos,
                                              !.pc = IF pos = -1 THEN "send" ELSE "mode"]]
           /\ pendingLock' = IF pos = -1 THEN "free" ELSE t
    /\ ops' = ops + 1
    /\ UNCHANGED <<subscriptions, sub_id_counter, subQ, rxAlive, pending, subsLock, closeCalls>>
    /\ UNCHANGED <<codecVars, obsVars, hbVars, mgrVars, chanVars, rcptVars, histVars>>

\* with the lock of pending held: the ack mode is read under the lock of
\* subscriptions, the queue is cut and both locks are released
AckRemove(t) ==
    /\ call[t].op \in {"ack", "nack"}
    /\ call[t].pc = "mode"
    /\ subsLock = "free"
    /\ LET c == call[t]
       IN  pending' = PendingAfter(pending, c.id,
                          RemoveAcked(pending[c.id], c.pos, AckModeOf(subscriptions, c.id)))
    /\ pendingLock' = "free"
    /\ call' = [call EXCEPT ![t].pc = "send"]
    /\ UNCHANGED <<subscriptions, sub_id_counter, subQ, rxAlive, subsLock, closeCalls, ops>>
    /\ UNCHANGED <<codecVars, obsVars, hbVars, mgrVars, chanVars, rcptVars, histVars>>

\* a frame that carries the two values under each other's header
AckFrameSwapped(op, id, mid) ==
    Frame(IF op = "ack" THEN "ACK" ELSE "NACK", << <<"id", id>>, <<"subscription", mid>> >>)

AckFrame(op, id, mid) ==
    Frame(IF op = "ack" THEN "ACK" ELSE "NACK", << <<"id", mid>>, <<"subscription", id>> >>)

AckSend(t) ==
    /\ call[t].op \in {"ack", "nack"}
    /\ call[t].pc = "send"
    /\ SendEnds(t, AckFrame(call[t].op, call[t].id, call[t].mid))
    /\ UNCHANGED <<inQ, closeCalls, ops>>
    /\ UNCHANGED <<codecVars, obsVars, hbVars, mgrVars, subVars, rcptVars, histVars>>

\* mpsc::Receiver::recv on the receiver of a subscription yields a frame
ReceiverYields(id) ==
    /\ id \in DOMAIN subQ
    /\ rxAlive[id]
    /\ Len(subQ[id]) > 0
    /\ subQ' = [subQ EXCEPT ![id] = Tail(@)]
    /\ UNCHANGED <<subscriptions, sub_id_counter, rxAlive, pending, pendingLock, subsLock>>
    /\ UNCHANGED <<codecVars, hbVars, mgrVars, chanVars, rcptVars, appVars, histVars>>

\* the application takes a frame from the receiver of a subscription
SubRecv(id) ==
    /\ ReceiverYields(id)
    /\ UNCHANGED obsVars

\* the same, by a consumer that keeps what it reads
SubRecvKept(id) ==
    /\ ReceiverYields(id)
    /\ readLog' = Append(readLog, <<id, Head(subQ[id])>>)
    /\ UNCHANGED <<served, received>>

\* the application drops the receiver of a subscription
DropRx(id) ==
    /\ id \in DOMAIN rxAlive
    /\ rxAlive[id]
    /\ \A t \in Tasks : ~(call[t].op = "subscribe" /\ call[t].id = id /\ call[t].pc # "done")
    /\ rxAlive' = [rxAlive EXCEPT ![id] = FALSE]
    /\ held' = [k \in DOMAIN held \ {id} |-> held[k]]
    /\ UNCHANGED <<subscriptions, sub_id_counter, subQ, pending, pendingLock, subsLock>>
    /\ UNCHANGED <<opened, rejected, heldAtDrop, resubbed, fails>>
    /\ UNCHANGED <<codecVars, obsVars, hbVars, mgrVars, chanVars, rcptVars, appVars>>

\* subscribe_with_headers has created the channel of id and not yet returned:
\* its local sender tx is alive
InSubscribe(id) ==
    \E t \in Tasks : call[t].op = "subscribe" /\ call[t].id = id /\ call[t].pc # "done"

\* a sender of the channel of id is alive: the clone in the entry of the table,
\* which every Connection handle and every Subscription keep alive, or the
\* local one of a subscribe that has not returned
SenderAlive(id) == InSubscribe(id) \/ \E e \in Entries(subscriptions) : e.id = id

\* the MESSAGE frames the server may send
MessageFrame(dest, sub, mid) ==
    Frame("MESSAGE",
          (IF mid = "" THEN <<>> ELSE << <<"message-id", mid>> >>)
          \o (IF sub = "" THEN <<>> ELSE << <<"subscription", sub>> >>)
          \o << <<"destination", dest>> >>)

\* ------------------------------------------------- the handles: receipts

ReceiptOps == {"send_frame_with_receipt", "send_frame_confirmed"}

\* format!("rcpt-{}", n)
ReceiptId(n) == "rcpt-" \o ToString(n)

\* frame.receipt(&receipt_id) of the frame the application sends
ReceiptFrame(rid) == Frame("SEND", << <<"destination", "/q/a">>, <<"receipt", rid>> >>)

\* receipts.insert(rid, tx): the sender that was registered under rid, if any,
\* is dropped, which closes its channel unless it has sent
InsertReceipt(map, rid, chan) == (rid :> chan) @@ map
DropSender(chans, map, rid) ==
    IF rid \in DOMAIN map /\ chans[map[rid]] = "open"
    THEN [chans EXCEPT ![map[rid]] = "closed"]
    ELSE chans

\* send_frame_with_receipt and send_frame_confirmed, to the creation of the
\* oneshot channel: each takes the receipt id from its own static counter
ReceiptStart(t, op) ==
    /\ CanStart(t)
    /\ LET n == IF op = "send_frame_with_receipt" THEN receipt_counter_s ELSE receipt_counter_c
           rid == ReceiptId(n)
       IN  /\ call' = [call EXCEPT ![t] = [Idle EXCEPT !.op = op, !.pc = "reg", !.rid = rid,
                                              !.chan = Len(oneshot) + 1]]
           /\ genIds' = Append(genIds, rid)
    /\ receipt_counter_s' = receipt_counter_s + (IF op = "send_frame_with_receipt" THEN 1 ELSE 0)
    /\ receipt_counter_c' = receipt_counter_c + (IF op = "send_frame_with_receipt" THEN 0 ELSE 1)
    /\ oneshot' = Append(oneshot, "open")
    /\ ops' = ops + 1
    /\ UNCHANGED <<pending_receipts, closeCalls>>
    /\ UNCHANGED <<codecVars, obsVars, hbVars, mgrVars, chanVars, subVars, histVars>>

\* Register the pending receipt, under the lock of pending_receipts
ReceiptRegister(t) ==
    /\ call[t].op \in ReceiptOps
    /\ call[t].pc = "reg"
    /\ pending_receipts' = InsertReceipt(pending_receipts, call[t].rid, call[t].chan)
    /\ oneshot' = DropSender(oneshot, pending_receipts, call[t].rid)
    /\ call' = [call EXCEPT ![t].pc = "send"]
    /\ UNCHANGED <<receipt_counter_s, receipt_counter_c, genIds, closeCalls, ops>>
    /\ UNCHANGED <<codecVars, obsVars, hbVars, mgrVars, chanVars, subVars, histVars>>

\* self.send_frame(frame_with_receipt).await?: send_frame_with_receipt returns
\* the receipt id and drops its receiver, send_frame_confirmed goes on to wait
ReceiptSend(t) ==
    /\ call[t].op \in ReceiptOps
    /\ call[t].pc = "send"
    /\ (pc # "exited") => Len(outQ) < OutCap
    /\ outQ' = IF pc = "exited" THEN outQ ELSE SendOn(outQ, ReceiptFrame(call[t].rid))
    /\ call' = [call EXCEPT ![t] =
                   IF pc = "exited" THEN [@ EXCEPT !.pc = "done", !.res = "SendClosed"]
                   ELSE IF @.op = "send_frame_with_receipt"
                   THEN [@ EXCEPT !.pc = "done", !.res = "Ok"]
                   ELSE [@ EXCEPT !.pc = "wait"]]
    /\ UNCHANGED <<inQ, closeCalls, ops>>
    /\ UNCHANGED <<codecVars, obsVars, hbVars, mgrVars, subVars, rcptVars, histVars>>

\* wait_for_receipt with the id send_frame_with_receipt returned to the task:
\* a new oneshot channel whose sender replaces the registered one
WaitStart(t) ==
    /\ connect_result = "Ok"
    /\ ops < MaxOps
    /\ call[t].op = "send_frame_with_receipt"
    /\ call[t].pc = "done"
    /\ call[t].res = "Ok"
    /\ pending_receipts' = InsertReceipt(pending_receipts, call[t].rid, Len(oneshot) + 1)
    /\ oneshot' = Append(DropSender(oneshot, pending_receipts, call[t].rid), "open")
    /\ call' = [call EXCEPT ![t] = [@ EXCEPT !.op = "wait_for_receipt", !.pc = "wait",
                                             !.chan = Len(oneshot) + 1, !.res = ""]]
    /\ ops' = ops + 1
    /\ UNCHANGED <<receipt_counter_s, receipt_counter_c, genIds, closeCalls>>
    /\ UNCHANGED <<codecVars, obsVars, hbVars, mgrVars, chanVars, subVars, histVars>>

\* tokio::time::timeout(timeout, rx).await, the receiver is ready: Ok when the
\* sender has sent, a protocol error when the sender was dropped
WaitResolve(t) ==
    /\ call[t].pc = "wait"
    /\ oneshot[call[t].chan] # "open"
    /\ call' = [call EXCEPT ![t] = [@ EXCEPT !.pc = "done",
                                             !.res = IF oneshot[call[t].chan] = "sent" THEN "Ok"
                                                     ELSE "Protocol"]]
    /\ UNCHANGED <<closeCalls, ops>>
    /\ UNCHANGED <<codecVars, obsVars, hbVars, mgrVars, chanVars, subVars, rcptVars, histVars>>

\* the timeout elapses with the receiver not ready
WaitTimeout(t) ==
    /\ call[t].pc = "wait"
    /\ oneshot[call[t].chan] = "open"
    /\ call' = [call EXCEPT ![t].pc = "timeout"]
    /\ UNCHANGED <<closeCalls, ops>>
    /\ UNCHANGED <<codecVars, obsVars, hbVars, mgrVars, chanVars, subVars, rcptVars, histVars>>

\* Timeout expired - clean up: receipts.remove(receipt_id) under the lock,
\* then Err(ReceiptTimeout)
WaitCleanup(t) ==
    /\ call[t].pc = "timeout"
    /\ pending_receipts' = [k \in DOMAIN pending_receipts \ {call[t].rid} |-> pending_receipts[k]]
    /\ oneshot' = DropSender(oneshot, pending_receipts, call[t].rid)
    /\ call' = [call EXCEPT ![t] = [@ EXCEPT !.pc = "done", !.res = "ReceiptTimeout"]]
    /\ UNCHANGED <<receipt_counter_s, receipt_counter_c, genIds, closeCalls, ops>>
    /\ UNCHANGED <<codecVars, obsVars, hbVars, mgrVars, chanVars, subVars, histVars>>

ReceiptItems == {ConnectedFrame, Frame("RECEIPT", << <<"receipt-id", ReceiptId(1)>> >>)}

\* the manager where no MESSAGE arrives and nothing is subscribed
MgrReceipt ==
    \/ M_Subscribe
    \/ M_SelectTop
    \/ M_ConnectOk
    \/ M_SendConnect
    \/ M_HandshakeItem
    \/ M_ClearPending
    \/ M_Snapshot
    \/ M_EnterSteady
    \/ M_Outbound
    \/ M_Inbound
    \/ M_Forward
    \/ M_TryRecv
    \/ M_Wake

ReceiptNext ==
    \/ Connect
    \/ MgrReceipt
    \/ \E item \in ReceiptItems : EnvSend(item)
    \/ EnvRead
    \/ FirstDrop
    \/ NextFrame
    \/ \E t \in Tasks, op \in ReceiptOps : ReceiptStart(t, op)
    \/ \E t \in Tasks : ReceiptRegister(t)
    \/ \E t \in Tasks : ReceiptSend(t)
    \/ \E t \in Tasks : WaitStart(t)
    \/ \E t \in Tasks : WaitResolve(t)
    \/ \E t \in Tasks : WaitTimeout(t)
    \/ \E t \in Tasks : WaitCleanup(t)

ReceiptSpec == Init /\ [][ReceiptNext]_vars

\* ------------------------------------------ acknowledgements on one transport

AckItems ==
    {ConnectedFrame, MessageFrame("/q/a", "1", "m1"), MessageFrame("/q/a", "1", "m2"),
     MessageFrame("/q/a", "", "m2")}

\* the acknowledgements the application sends
AckInputs == {<<"ack", "1", "m1">>, <<"ack", "1", "m2">>, <<"nack", "1", "m1">>}

\* the tasks of the application that use the subscriptions
SubTasks == {"t1"}

\* the manager on a transport that stays up
MgrSession ==
    \/ M_Subscribe
    \/ M_SelectTop
    \/ M_ConnectOk
    \/ M_SendConnect
    \/ M_HandshakeItem
    \/ M_ClearPending
    \/ M_Snapshot
    \/ M_Resub
    \/ M_EnterSteady
    \/ M_Outbound
    \/ M_Inbound
    \/ M_RouteNeed
    \/ M_RoutePend
    \/ M_RoutePendB
    \/ M_Deliver
    \/ M_Forward

AckNext ==
    \/ Connect
    \/ MgrSession
    \/ \E item \in AckItems : EnvSend(item)
    \/ EnvRead
    \/ NextFrame
    \/ \E t \in SubTasks, a \in AckModes : SubscribeStart(t, "/q/a", a, ExtraHeaders("/q/a"))
    \/ \E t \in SubTasks : SubscribeInsert(t)
    \/ \E t \in SubTasks : SubscribeSend(t)
    \/ \E t \in SubTasks, a \in AckInputs : AckStart(t, a[1], a[2], a[3])
    \/ \E t \in SubTasks : AckRemove(t)
    \/ \E t \in SubTasks : AckSend(t)

AckSpec == Init /\ [][AckNext]_vars

\* --------------------------------------------- subscriptions over a reconnect

ResubItems == {ConnectedFrame, MessageFrame("/q/a", "", "m1")}

\* what the application subscribes to
ResubInputs == {<<"/q/a", "client">>, <<"/q/b", "auto">>}

MgrSub ==
    \/ MgrSession
    \/ M_TryRecv
    \/ M_Wake

ResubNext ==
    \/ Connect
    \/ MgrSub
    \/ \E item \in ResubItems : EnvSend(item)
    \/ EnvRead
    \/ FirstDrop
    \/ NextFrame
    \/ \E t \in SubTasks, i \in ResubInputs : SubscribeStart(t, i[1], i[2], ExtraHeaders(i[1]))
    \/ \E t \in SubTasks : SubscribeInsert(t)
    \/ \E t \in SubTasks : SubscribeSend(t)
    \/ \E t \in SubTasks, id \in SubIds : UnsubscribeStart(t, id)
    \/ \E t \in SubTasks : UnsubscribeSend(t)

ResubSpec == Init /\ [][ResubNext]_vars

\* ------------------------------------------------ the order on the wire

OrderNext ==
    \/ Connect
    \/ MgrReceipt
    \/ EnvSend(ConnectedFrame)
    \/ EnvReadKept
    \/ FirstDrop
    \/ NextFrame
    \/ \E t \in Tasks : SendFrame(t)

OrderSpec == Init /\ [][OrderNext]_vars

\* ------------------------------------------ the order of the deliveries

\* The server numbers the MESSAGE frames it sends: the n-th has message-id mn.
MaxServed == 3
ArrivalId(n) == "m" \o ToString(n)

\* the server sends its next MESSAGE, for the subscription or for the destination
EnvSendNext(sub) ==
    /\ served < MaxServed
    /\ ServerSends(MessageFrame("/q/a", sub, ArrivalId(served + 1)))
    /\ served' = served + 1
    /\ UNCHANGED <<received, readLog>>

DeliverNext ==
    \/ Connect
    \/ MgrSession
    \/ EnvSend(ConnectedFrame)
    \/ \E sub \in {"", "1"} : EnvSendNext(sub)
    \/ EnvRead
    \/ NextFrame
    \/ \E t \in SubTasks : SubscribeStart(t, "/q/a", "client", ExtraHeaders("/q/a"))
    \/ \E t \in SubTasks : SubscribeInsert(t)
    \/ \E t \in SubTasks : SubscribeSend(t)
    \/ \E id \in SubIds : SubRecvKept(id)

DeliverSpec == Init /\ [][DeliverNext]_vars

\* ------------------------------------------- the end of a subscription

EndItems == {ConnectedFrame, MessageFrame("/q/a", "", "m1")}

\* the manager with its shutdown branches
MgrEnd ==
    \/ MgrSub
    \/ M_HandshakeShutdown
    \/ M_Shutdown

EndNext ==
    \/ Connect
    \/ MgrEnd
    \/ \E item \in EndItems : EnvSend(item)
    \/ EnvRead
    \/ NextFrame
    \/ Close
    \/ \E t \in SubTasks : SubscribeStart(t, "/q/a", "client", ExtraHeaders("/q/a"))
    \/ \E t \in SubTasks : SubscribeInsert(t)
    \/ \E t \in SubTasks : SubscribeSend(t)
    \/ \E t \in SubTasks, id \in SubIds : UnsubscribeStart(t, id)
    \/ \E t \in SubTasks : UnsubscribeSend(t)
    \/ \E id \in SubIds : SubRecv(id)

EndSpec == Init /\ [][EndNext]_vars

\* C1: whenever close() is called, in whatever phase the manager is, the
\* manager eventually exits its reconnect loop and stays exited (it opens no
\* transport afterwards).
C1_CloseLeadsToExit == (closeCalls > 0) ~> [](pc = "exited")

\* C10: if the server answers the CONNECT frame of the initial connection with
\* an ERROR frame, connect returns ServerRejected to its caller and the
\* manager opens no further transport.
C10_RejectionSurfaces == rejected => (connect_result = "ServerRejected" /\ opened = 1)

\* C11: connect has returned a connection only when a CONNECTED frame has been
\* read on the initial transport; a refused transport and a stream that closes
\* before CONNECTED make it return an error instead.
C11_ConnectAfterConnected ==
    (connect_result = "Ok" /\ opened <= 1) => (opened = 1 /\ connected)

\* the delay of the n-th failed attempt in a row: 1, 2, 4, 8, 16, 30, 30, ...
Delay(n) == IF n >= 6 THEN 30 ELSE 2 ^ (n - 1)

\* C12: the backoff is always between 1 and 30 seconds, and the delay slept
\* after the n-th failed attempt in a row (a refused transport, a failed
\* CONNECT write, a startup that ended without CONNECTED, or a session that
\* ended) is 1, 2, 4, 8, 16, 30, 30, ... seconds.
C12_BackoffDoublesToThirty ==
    /\ backoff_secs >= 1
    /\ backoff_secs <= 30
    /\ (pc = "sleep" => backoff_secs = Delay(fails))

\* ----------------------------------------------------------- decoder spec

CodecNext == Feed \/ DecodeStep

\* a decoder run starts with a stream chosen and the connection untouched
CodecStart == CodecInit /\ ConnInit

CodecSpec == CodecStart /\ [][CodecNext]_vars

\* ----------------------------------------------------------- heartbeats

\* a millisecond passes while the manager waits in its select! with no branch
\* ready and nothing in flight; the one-day period of an idle hb_tick does
\* not run out
Tick ==
    /\ pc = "steady"
    /\ link = "up"
    /\ shutdown_sub = 0
    /\ Len(outQ) = 0
    /\ Len(netIn) = 0
    /\ Len(wire) = 0
    /\ tick_in > 0
    /\ ~WatchdogDue
    /\ since_received' = Elapsed(since_received, recv_interval.d * 2 + 1)
    /\ since_sent' = Elapsed(since_sent, send_interval.d)
    /\ since_write' = Elapsed(since_write, send_interval.d)
    /\ tick_in' = IF send_interval.some THEN tick_in - 1 ELSE tick_in
    /\ slept' = IF recv_interval.some THEN slept + 1 ELSE slept
    /\ UNCHANGED <<client_hb, server_heartbeat, send_interval, recv_interval>>
    /\ UNCHANGED <<codecVars, obsVars, mgrVars, chanVars, subVars, rcptVars, appVars, histVars>>

ConnectedWith(hb) == Frame("CONNECTED", << <<"version", "1.2">>, <<"heart-beat", hb>> >>)

NegItems ==
    {Heartbeat, ConnectedFrame, ConnectedWith("6"), ConnectedWith("x,2")}
    \cup {ConnectedWith(HbText(a, b)) : a, b \in HbValues}

MgrNeg ==
    \/ M_Subscribe
    \/ M_SelectTop
    \/ M_ConnectOk
    \/ M_SendConnect
    \/ M_HandshakeItem
    \/ M_ClearPending
    \/ M_Snapshot
    \/ M_EnterSteady
    \/ M_Inbound
    \/ M_HbTick
    \/ M_TryRecv
    \/ M_Wake

\* the server of these runs sends CONNECTED in answer to CONNECT only, and
\* heartbeats whenever it likes
ServerBeats(item) ==
    /\ item.kind = "frame" => pc = "handshake"
    /\ EnvSend(item)

\* the negotiation: every pair of values on either side, no time passing
NegNext ==
    \/ Connect
    \/ MgrNeg
    \/ \E item \in NegItems : ServerBeats(item)
    \/ EnvRead
    \/ EnvDrop

\* connect is called with one of the heart-beat values
NegStart == CodecIdle /\ \E a, b \in HbValues : ConnInitWith(HbText(a, b))

NegSpec == NegStart /\ [][NegNext]_vars

\* the watchdog: the server names no values of its own
BeatItems == {Heartbeat, ConnectedFrame}

MgrBeat ==
    \/ M_Subscribe
    \/ M_SelectTop
    \/ M_ConnectOk
    \/ M_SendConnect
    \/ M_HandshakeItem
    \/ M_ClearPending
    \/ M_Snapshot
    \/ M_EnterSteady
    \/ M_Outbound
    \/ M_Inbound
    \/ M_HbTick
    \/ M_Watchdog
    \/ M_TryRecv
    \/ M_Wake

BeatNext ==
    \/ Connect
    \/ MgrBeat
    \/ \E item \in BeatItems : ServerBeats(item)
    \/ EnvRead
    \/ SendFrame("t1")
    \/ Tick

\* connect is called with one of the heart-beat values
BeatStart == CodecIdle /\ \E a, b \in HbValues : ConnInitWith(HbText(a, b))

BeatSpec == BeatStart /\ [][BeatNext]_vars

\* the intervals in force: negotiated from the values of the two sides
Negotiated == pc \in {"snapshot", "resub", "steady", "routeNeed", "forward"}
ClientValues == parse_heartbeat_header(client_hb)
ServerValues == parse_heartbeat_header(server_heartbeat)

\* the runtime keeps running the manager task, the network delivers what was
\* written, time passes, and select! takes its ready branch at random, so the
\* watchdog branch is taken when it is ready again and again
BeatFairSpec ==
    BeatSpec /\ WF_vars(MgrBeat) /\ WF_vars(EnvRead) /\ WF_vars(Tick) /\ SF_vars(M_Watchdog)

\* the pulses: subscriptions are replayed before the steady state, the
\* incoming direction is off
MgrPulse ==
    \/ M_Subscribe
    \/ M_SelectTop
    \/ M_ConnectOk
    \/ M_SendConnect
    \/ M_HandshakeItem
    \/ M_ClearPending
    \/ M_Snapshot
    \/ M_Resub
    \/ M_EnterSteady
    \/ M_Outbound
    \/ M_Inbound
    \/ M_HbTick

PulseNext ==
    \/ Connect
    \/ MgrPulse
    \/ \E item \in BeatItems : ServerBeats(item)
    \/ EnvRead
    \/ \E t \in SubTasks : SubscribeStart(t, "/q/a", "auto", <<>>)
    \/ \E t \in SubTasks : SubscribeInsert(t)
    \/ \E t \in SubTasks : SubscribeSend(t)
    \/ Tick

\* connect is called with the outgoing direction off or at two
PulseStart == CodecIdle /\ \E a \in {0, 2} : ConnInitWith(HbText(a, 0))

PulseSpec == PulseStart /\ [][PulseNext]_vars

\* the step of the manager that writes a heartbeat pulse
PulseWritten == Len(wire') > Len(wire) /\ wire'[Len(wire')] = Heartbeat

\* C33 as stated: the manager writes a heartbeat pulse only in the steady
\* state, at a send tick, with an outgoing interval d negotiated and at least
\* d elapsed since its last write to the transport; with the outgoing
\* direction disabled it writes none.
C33_PulseOnlyAfterLastWrite ==
    [][PulseWritten
          => /\ pc = "steady"
             /\ tick_in = 0
             /\ send_interval.some
             /\ since_write >= send_interval.d
             /\ since_sent' = 0]_vars

\* C33: the manager writes a heartbeat pulse only in the steady state, at a
\* send tick, with an outgoing interval d negotiated and at least d elapsed
\* since the last-sent time stamp, which is then set to the present; with the
\* outgoing direction disabled it writes none.
C33_PulseOnlyWhenIntervalElapsed ==
    [][PulseWritten
          => /\ pc = "steady"
             /\ tick_in = 0
             /\ send_interval.some
             /\ since_sent >= send_interval.d
             /\ since_sent' = 0]_vars

\* a pulse has just been written at a tick of the interval of two
C33_Witness ==
    /\ pc = "steady"
    /\ send_interval = Some(2)
    /\ wire = <<Heartbeat>>
    /\ since_sent = 0
    /\ tick_in = 2

SilentTooLong ==
    pc = "steady" /\ recv_interval.some /\ since_received > recv_interval.d * 2

\* C22: in steady state with an incoming interval r, when nothing has been
\* received for more than 2r the manager eventually closes the transport and
\* leaves the steady state, unless the server is heard again first.
C22_SilenceEndsSteadyState ==
    SilentTooLong ~> (pc # "steady" \/ since_received = 0)

\* C23: a zero on either side of a direction disables it: no interval is
\* negotiated for it.
C23_ZeroDisablesDirection ==
    Negotiated =>
        /\ (ClientValues[1] = 0 \/ ServerValues[2] = 0) => ~send_interval.some
        /\ (ClientValues[2] = 0 \/ ServerValues[1] = 0) => ~recv_interval.some

\* C24: the outgoing interval is max(cx, sy), the incoming one max(cy, sx),
\* and a maximum of zero is reported as no interval.
C24_NegotiatedIsMaximum ==
    Negotiated =>
        /\ send_interval =
              IF ClientValues[1] = 0 /\ ServerValues[2] = 0 THEN None
              ELSE IF ClientValues[1] >= ServerValues[2] THEN Some(ClientValues[1])
              ELSE Some(ServerValues[2])
        /\ recv_interval =
              IF ClientValues[2] = 0 /\ ServerValues[1] = 0 THEN None
              ELSE IF ClientValues[2] >= ServerValues[1] THEN Some(ClientValues[2])
              ELSE Some(ServerValues[1])

\* the steady state is reached with 2,6 against 0,6: max(2, 6) out, max(6, 0) in
C24_Witness ==
    /\ pc = "steady"
    /\ client_hb = "2,6"
    /\ server_heartbeat = "0,6"
    /\ send_interval = Some(MaxHb)
    /\ recv_interval = Some(MaxHb)

\* C25: the decoder never emits a frame whose command is empty: an empty
\* command line and a NUL with nothing before it are protocol errors.
C25_NoEmptyCommand ==
    \A i \in 1..Len(items) : items[i].kind = "frame" => Len(items[i].command) > 0

\* ------------------------------------------------------ whole buffers

\* a whole-buffer run starts with the input chosen and the connection untouched
WholeStart == WholeInit /\ ConnInit

WholeSpec == WholeStart /\ [][DecodeStep]_vars

\* the frame a unit holds
UnitFrame(u) ==
    IF u = "SEND" THEN FrameItem(SendCommand, <<>>, <<>>)
    ELSE IF u = "MESSAGE" THEN FrameItem(MessageCommand, << <<MessageIdKey, <<49>> >> >>, BodyText)
    ELSE FrameItem(<<LetterA>>, << <<ContentLengthKey, <<49>> >> >>, <<NUL>>)

\* the items the units stand for: a frame per frame unit, nothing for the LF
\* that follows a frame directly, a heartbeat for every other LF
RECURSIVE UnitItems(_, _)
UnitItems(us, afterFrame) ==
    IF Len(us) = 0 THEN <<>>
    ELSE IF us[1] = "LF"
         THEN (IF afterFrame THEN <<>> ELSE <<Heartbeat>>) \o UnitItems(Tail(us), FALSE)
         ELSE <<UnitFrame(us[1])>> \o UnitItems(Tail(us), TRUE)

\* C21: when the buffer holds complete frames and LF bytes, the LF directly
\* after a frame's NUL is consumed with the frame and yields no item, every
\* other LF yields one heartbeat, and all bytes are consumed.
C21_TrailingLFThenHeartbeats ==
    (sample.kind = "units" /\ dstate # "ready") =>
        /\ dstate = "more"
        /\ Len(buf) = 0
        /\ items = UnitItems(sample.units, FALSE)

\* LF, SEND, LF, LF, MESSAGE, LF, LF was decoded to heartbeat, SEND,
\* heartbeat, MESSAGE, heartbeat
C21_Witness ==
    /\ sample.kind = "units"
    /\ sample.units = <<"LF", "SEND", "LF", "LF", "MESSAGE", "LF", "LF">>
    /\ dstate = "more"
    /\ Len(items) = 5
    /\ items[1] = Heartbeat
    /\ items[2].command = SendCommand
    /\ items[3] = Heartbeat
    /\ items[4].command = MessageCommand
    /\ items[4].body = BodyText
    /\ items[5] = Heartbeat

\* ------------------------------------------------------------ encoding

EncStart == EncInit /\ ConnInit

EncSpec == EncStart /\ [][EncodeStep]_vars

\* C26: the encoder adds a content-length header with the length of the body
\* exactly when no header is named content-length in any case and the body
\* holds a NUL byte or is not UTF-8; otherwise it writes the headers as given.
C26_ContentLengthAddedIff ==
    (sample.kind = "frame" /\ dstate = "ready") =>
        LET named == \E i \in 1..Len(sample.headers) :
                         /\ Len(sample.headers[i][1]) = Len(ContentLengthKey)
                         /\ \A j \in 1..Len(ContentLengthKey) :
                                AsciiLower(sample.headers[i][1][j]) = ContentLengthKey[j]
            binary == (\E i \in 1..Len(sample.body) : sample.body[i] = NUL)
                      \/ ~IsUtf8(sample.body)
            written == IF ~named /\ binary
                       THEN Append(sample.headers,
                                   <<ContentLengthKey, ToDecimal(Len(sample.body))>>)
                       ELSE sample.headers
        IN  stream = sample.command \o <<LF>> \o HeaderLines(written) \o <<LF>>
                     \o sample.body \o <<NUL>>

\* a frame without headers and with the body A NUL was encoded with
\* content-length:2
C26_Witness ==
    /\ sample.kind = "frame"
    /\ dstate = "ready"
    /\ Len(sample.headers) = 0
    /\ sample.body = <<LetterA, NUL>>
    /\ stream = SendCommand \o <<LF>> \o ContentLengthKey
                \o <<COLON, 50, LF, LF, LetterA, NUL, NUL>>

\* --------------------------------------------------------- round trips

RoundNext == EncodeStep \/ DecodeStep

\* a round trip starts with a frame chosen and the connection untouched
RoundStart == RoundInit /\ ConnInit

RoundSpec == RoundStart /\ [][RoundNext]_vars

\* the headers without a content-length header that stands last and that the
\* original frame did not have
WithoutAddedLength(headers, original) ==
    IF /\ Len(headers) = Len(original) + 1
       /\ headers[Len(headers)][1] = ContentLengthKey
    THEN SubSeq(headers, 1, Len(original))
    ELSE headers

\* C20: decoding the bytes that encode a frame yields exactly one item, a
\* frame with the command, the headers (apart from an added content-length)
\* and the body of the original, and leaves no byte in the buffer.
C20_EncodeDecodeRoundTrip ==
    (sample.kind = "frame" /\ dstate \notin {"encode", "ready"}) =>
        /\ dstate = "more"
        /\ Len(buf) = 0
        /\ Len(items) = 1
        /\ items[1].kind = "frame"
        /\ items[1].command = sample.command
        /\ items[1].body = sample.body
        /\ WithoutAddedLength(items[1].headers, sample.headers) = sample.headers

\* the round trip of a frame is done whose header key holds a colon and a
\* backslash, whose value holds CR and LF, and whose body holds a NUL byte
C20_Witness ==
    /\ sample.kind = "frame"
    /\ dstate = "more"
    /\ Len(sample.headers) = 1
    /\ sample.headers[1][1] = <<COLON, BACKSLASH>>
    /\ sample.headers[1][2] = <<CR, LF>>
    /\ sample.body = <<NUL, 255>>

\* C2: feeding the stream one byte at a time, decoding until need-more after
\* each byte, yields exactly the item sequence of decoding the whole stream
\* at once.
C2_ByteAtATimeEqualsWhole ==
    (chunk = 1 /\ fed = Len(stream) /\ dstate # "ready") => items = DecodeAll(stream)

\* ------------------------------------------------------- acknowledgements

\* the pending queue of a subscription, empty when the map has no key for it
QueueOf(p, id) == IF id \in DOMAIN p THEN p[id] ELSE <<>>

\* task t completes the removal of an ack on a subscription it holds in the
\* given ack mode
AckActs(t, mode) ==
    /\ call[t].op = "ack"
    /\ call[t].pc = "mode"
    /\ call'[t].pc = "send"
    /\ call[t].id \in DOMAIN held
    /\ held[call[t].id].ack = mode

\* C3: when ack(s, m) removes from the pending queue of a subscription s held
\* in client mode, the queue afterwards is exactly what was enqueued after m,
\* in its original order: m and everything enqueued before it are gone.
C3_CumulativeAckRemovesPrefix ==
    [][\A t \in Tasks :
          AckActs(t, "client") =>
              LET q == pending[call[t].id]
                  p == QueuePosition(q, call[t].mid)
              IN  /\ p >= 0
                  /\ QueueOf(pending', call[t].id) = SubSeq(q, p + 2, Len(q))]_vars

\* an ack of the second of two pending deliveries of a client subscription
\* has emptied the queue
C3_Witness ==
    \E t \in Tasks :
        /\ call[t].op = "ack"
        /\ call[t].pc = "send"
        /\ call[t].pos = 1
        /\ call[t].id \in DOMAIN held
        /\ held[call[t].id].ack = "client"
        /\ call[t].id \notin DOMAIN pending

\* C4: when ack(s, m) removes from the pending queue of a subscription s held
\* in client-individual mode, the queue afterwards is the queue before without
\* the entry of m, and the queue of every other subscription is unchanged.
C4_IndividualAckRemovesOne ==
    [][\A t \in Tasks :
          AckActs(t, "client-individual") =>
              LET q == pending[call[t].id]
                  p == QueuePosition(q, call[t].mid)
              IN  /\ p >= 0
                  /\ QueueOf(pending', call[t].id) = SubSeq(q, 1, p) \o SubSeq(q, p + 2, Len(q))
                  /\ \A k \in (DOMAIN pending \cup DOMAIN pending') \ {call[t].id} :
                        QueueOf(pending', k) = QueueOf(pending, k)]_vars

\* C17: every call ack(s, m) or nack(s, m) made while the manager holds the
\* outbound channel enqueues exactly one frame, ACK or NACK, whose headers are
\* id = m and subscription = s, and returns Ok: the step that ends the call
\* appends that frame and no other step of the call touches the channel,
\* whether or not a pending delivery of m was found.
C17_AckAlwaysSendsOneFrame ==
    [][\A t \in Tasks :
          (call'[t] # call[t] /\ call'[t].op \in {"ack", "nack"} /\ pc # "exited") =>
              IF call'[t].pc = "done"
              THEN /\ call'[t].res = "Ok"
                   /\ outQ' = Append(outQ,
                                 Frame(IF call[t].op = "ack" THEN "ACK" ELSE "NACK",
                                       << <<"id", call[t].mid>>,
                                          <<"subscription", call[t].id>> >>))
              ELSE outQ' = outQ]_vars

\* an ack has returned Ok and its ACK frame is on the outbound channel although
\* nothing was ever subscribed, so that no pending delivery existed
C17_Witness ==
    \E t \in Tasks :
        /\ call[t].op = "ack"
        /\ call[t].pc = "done"
        /\ call[t].res = "Ok"
        /\ sub_id_counter = 1
        /\ Len(outQ) > 0
        /\ outQ[Len(outQ)].command = "ACK"

\* ------------------------------------------------------- order on the wire

\* the frames of the application in the order in which they were written to
\* the transports: those the server has read, then those still on the wire
AppWritten == SelectSeq(received \o wire, LAMBDA f : f.command = "SEND")

\* the number of the operation that sent the frame
SeqOf(f) == CHOOSE n \in 1..(MaxOps + 1) : ToString(n) = get_header(f, "seq")

\* C18: of two frames that one task has enqueued, the one enqueued later is
\* never written to the wire before the other, on one transport or across a
\* reconnect.
C18_TaskFramesInEnqueueOrder ==
    \A i, j \in 1..Len(AppWritten) :
        (i < j /\ get_header(AppWritten[i], "task") = get_header(AppWritten[j], "task"))
            => SeqOf(AppWritten[i]) < SeqOf(AppWritten[j])

\* two frames of one task have been written, the second one after a reconnect
C18_Witness ==
    /\ opened = 2
    /\ Len(AppWritten) = 2
    /\ get_header(AppWritten[1], "task") = get_header(AppWritten[2], "task")
    /\ Len(wire) = 1
    /\ wire[1].command = "SEND"

\* C38: a frame leaves the outbound channel only by being written to the
\* transport: when the write fails the frame stays in the channel for the
\* next transport.
C38_AcceptedFrameNotDiscarded ==
    [][Len(outQ') < Len(outQ) => wire' = Append(wire, Head(outQ))]_vars

\* ------------------------------------------------- order of the deliveries

\* the place of a MESSAGE frame in the order of arrival
ArrivalOf(f) == CHOOSE n \in 1..(MaxServed + 1) : ArrivalId(n) = msg_id_opt(f)

\* C19: the frames a consumer has read from one subscription are in the order
\* in which the manager received them from the transport: each arrived later
\* than the one read before it, so none is read twice and none out of order.
C19_ReadInArrivalOrder ==
    \A i, j \in 1..Len(readLog) :
        (i < j /\ readLog[i][1] = readLog[j][1])
            => ArrivalOf(readLog[i][2]) < ArrivalOf(readLog[j][2])

\* the server has sent two MESSAGE frames, the manager has routed both and a
\* consumer has read two frames from one subscription
C19_Witness ==
    /\ Len(readLog) = 2
    /\ readLog[1][1] = readLog[2][1]
    /\ served = 2
    /\ Len(inQ) = 0
    /\ pc = "steady"

\* ------------------------------------------------------------ inbound routing

\* C13: while it routes a MESSAGE the manager never waits for a consumer: it is
\* never at a send that can only go on once the application has taken a frame
\* from a full channel.
C13_RoutingNeverWaitsOnConsumer ==
    (pc = "forward" /\ cur.command = "MESSAGE") => Len(inQ) < InCap

\* C14: a subscription the application holds, with its receiver alive, stays
\* registered in the table whatever deliveries its full channel has dropped.
C14_FullEndpointStaysRegistered ==
    \A id \in DOMAIN held :
        rxAlive[id] => \E e \in Entries(subscriptions) : e.id = id

\* C15: only frames whose command is neither MESSAGE nor RECEIPT are placed on
\* the generic inbound channel.
C15_OnePolicyPerFrame ==
    \A i \in 1..Len(inQ) : inQ[i].command \notin {"MESSAGE", "RECEIPT"}

\* ------------------------------------------------- the end of the sequence

\* the application has a Subscription for id whose receive sequence should
\* have ended: it has unsubscribed it, or the manager has exited
ShouldEnd(id) ==
    /\ rxAlive[id]
    /\ ~InSubscribe(id)
    /\ (id \notin DOMAIN held \/ pc = "exited")

\* C16: once a subscription has been unsubscribed, or the manager has exited,
\* no sender of its channel is left, so that reading yields the buffered frames
\* and then the end of the sequence instead of staying pending.
C16_EndedSubscriptionTerminates ==
    \A id \in DOMAIN subQ : ShouldEnd(id) => ~SenderAlive(id)

\* ---------------------------------------------------------- resubscription

\* the server sends m1 on the first transport and m2 on the second
SessionMessage == MessageFrame("/q/a", "", IF opened = 1 THEN "m1" ELSE "m2")

ClearNext ==
    \/ Connect
    \/ MgrSub
    \/ EnvSend(ConnectedFrame)
    \/ EnvSend(SessionMessage)
    \/ EnvRead
    \/ FirstDrop
    \/ NextFrame
    \/ \E t \in SubTasks : SubscribeStart(t, "/q/a", "client", <<>>)
    \/ \E t \in SubTasks : SubscribeInsert(t)
    \/ \E t \in SubTasks : SubscribeSend(t)
    \/ \E id \in SubIds : SubRecv(id)

ClearSpec == Init /\ [][ClearNext]_vars

\* the message ids of the entries of the pending map
PendingIds(p) == UNION {{p[k][i][1] : i \in 1..Len(p[k])} : k \in DOMAIN p}

\* C28: the step that enters the steady state finds the pending map empty, and
\* from the clearing on a transport onwards the map holds entries only for
\* MESSAGE frames of that transport: on the second one none of the first.
C28_PendingEmptyAtSteadyEntry ==
    [][/\ (pc = "resub" /\ pc' = "steady") => (DOMAIN pending = {} /\ DOMAIN pending' = {})
       /\ (opened' = 2 /\ pc' \in {"snapshot", "resub", "steady", "routeNeed", "routePend",
                                    "routePendB", "deliver", "forward", "afterConn"})
              => "m1" \notin PendingIds(pending')]_vars

\* subscription 1 was given m1 on the first transport and m2 on the second,
\* and on the second the pending map holds m2 alone
C28_Witness ==
    /\ opened = 2
    /\ pc = "steady"
    /\ "1" \in DOMAIN subQ
    /\ Len(subQ["1"]) = 2
    /\ msg_id_opt(subQ["1"][1]) = "m1"
    /\ msg_id_opt(subQ["1"][2]) = "m2"
    /\ PendingIds(pending) = {"m2"}

\* C29: every queue of the pending map is under the id of a subscription of
\* the table whose ack mode is client or client-individual.
C29_PendingOnlyForNonAuto ==
    \A k \in DOMAIN pending :
        \E e \in Entries(subscriptions) :
            e.id = k /\ e.ack \in {"client", "client-individual"}

\* the subscription id is the one the MESSAGE names and is in the table, or,
\* for a MESSAGE that names none, is in the list of its destination
Matched(f, id) ==
    IF sub_opt(f) # ""
    THEN id = sub_opt(f) /\ \E e \in Entries(subscriptions) : e.id = id
    ELSE /\ dest_opt(f) \in DOMAIN subscriptions
         /\ \E i \in 1..Len(subscriptions[dest_opt(f)]) : subscriptions[dest_opt(f)][i].id = id

\* the step of the manager that delivers the MESSAGE it is routing
Delivering == pc = "deliver" /\ pc' # "deliver"

\* C30 as stated: the delivery appends one clone of the MESSAGE to the endpoint
\* of every matched subscription and leaves every other endpoint as it was.
C30_EnqueuedToEveryMatch ==
    [][Delivering =>
          \A id \in DOMAIN subQ :
              subQ'[id] = IF Matched(cur, id) THEN Append(subQ[id], cur) ELSE subQ[id]]_vars

\* C30: the delivery appends one clone of the MESSAGE to the endpoint of every
\* matched subscription whose endpoint is open and has room, and leaves every
\* other endpoint as it was: a MESSAGE that names subscription s reaches s
\* alone, one that names none reaches the subscriptions of its destination.
C30_EnqueuedToMatchWithRoom ==
    [][Delivering =>
          \A id \in DOMAIN subQ :
              subQ'[id] = IF Matched(cur, id) /\ rxAlive[id] /\ Len(subQ[id]) < SubCap
                          THEN Append(subQ[id], cur)
                          ELSE subQ[id]]_vars

\* both subscriptions of /q/a were given m1, sent by destination, and m2, sent
\* for subscription 1, has just been delivered to subscription 1 alone
C30_Witness ==
    /\ pc = "forward"
    /\ cur = MessageFrame("/q/a", "1", ArrivalId(2))
    /\ DOMAIN subQ = {"1", "2"}
    /\ Len(subscriptions["/q/a"]) = 2
    /\ subQ["1"] = <<MessageFrame("/q/a", "", ArrivalId(1)), cur>>
    /\ subQ["2"] = <<MessageFrame("/q/a", "", ArrivalId(1))>>

\* C32: the entry into the steady state after CONNECTED sets the backoff to one
\* second, and no other step lowers it: a session whose handshake ended without
\* CONNECTED leaves the backoff as it was, to be doubled by the next sleep.
C32_BackoffResetOnlyAfterConnected ==
    [][/\ (pc = "resub" /\ pc' = "steady" /\ connected) => backoff_secs' = 1
       /\ (backoff_secs' < backoff_secs) => (pc = "resub" /\ pc' = "steady" /\ connected)]_vars

\* C36: an ack or nack call never holds the lock of the pending map and waits
\* for the lock of the subscription table while the manager holds the lock of
\* the table and waits for the lock of the pending map.
C36_NoOppositeLockOrder ==
    ~(/\ pc = "routePendB"
      /\ subsLock = "mgr"
      /\ \E t \in Tasks : pendingLock = t /\ call[t].pc = "mode")

\* ------------------------------------------- the bounds of a sized body

\* the longest input of these runs
MaxInput == 3

\* the content-length values of these runs: the small ones and those at or
\* near the greatest usize
SizedLengths == (0..MaxInput) \cup ((UsizeMax - MaxInput)..UsizeMax)

\* a + b in usize: the sum, or Overflow where it does not fit. A build with
\* overflow checks panics there, a build without them wraps.
Overflow == -1
CheckedAdd(a, b) == IF a = Overflow \/ b = Overflow \/ a + b > UsizeMax THEN Overflow ELSE a + b
WrappingAdd(a, b) == (a + b) % (UsizeMax + 1)

\* parse_frame_slice from the match on get_content_length on, for an input
\* of len bytes with the headers ending at pos, a content-length that parsed
\* as content_len, and the byte after the body being NUL or not
BodyBounds(build, pos, len, content_len, nul) ==
    IF build = "checked"
    THEN IF CheckedAdd(CheckedAdd(pos, content_len), 1) = Overflow THEN "panic"
         ELSE IF pos + content_len + 1 > len THEN "need-more"
         ELSE IF nul THEN "frame" ELSE "error"
    ELSE IF WrappingAdd(WrappingAdd(pos, content_len), 1) > len THEN "need-more"
         ELSE LET end == WrappingAdd(pos, content_len)
              IN  IF pos > end \/ end > len THEN "panic"
                  ELSE IF end >= len \/ ~nul THEN "error"
                  ELSE "frame"

\* an input whose headers end at pos, with its content-length, for either build
SizedInit ==
    /\ \E len \in 0..MaxInput, pos \in 0..MaxInput, n \in SizedLengths,
          build \in {"checked", "wrapping"}, nul \in BOOLEAN :
            /\ pos <= len
            /\ sample = [kind |-> "sized", build |-> build, pos |-> pos, len |-> len,
                         content_len |-> n, nul |-> nul, outcome |-> "none"]
    /\ stream = <<>>
    /\ chunk = 1
    /\ fed = 0
    /\ buf = <<>>
    /\ items = <<>>
    /\ dstate = "sized"

SizedStep ==
    /\ sample.kind = "sized"
    /\ sample.outcome = "none"
    /\ sample' = [sample EXCEPT !.outcome = BodyBounds(sample.build, sample.pos, sample.len,
                                                       sample.content_len, sample.nul)]
    /\ UNCHANGED <<stream, chunk, fed, buf, items, dstate, connVars>>

SizedStart == SizedInit /\ ConnInit

SizedSpec == SizedStart /\ [][SizedStep]_vars

\* C40: for every content-length that parses, the bounds computation does not
\* panic, and it answers need-more while fewer than content-length + 1 bytes
\* follow the headers.
C40_ContentLengthBoundsSafe ==
    (sample.kind = "sized" /\ sample.outcome # "none") =>
        /\ sample.outcome # "panic"
        /\ (sample.len - sample.pos < sample.content_len + 1) => sample.outcome = "need-more"

\* ------------------------------------------------ the handles are dropped

MgrDrop ==
    \/ M_Subscribe
    \/ M_SelectTop
    \/ M_ConnectOk
    \/ M_SendConnect
    \/ M_HandshakeItem
    \/ M_ClearPending
    \/ M_Snapshot
    \/ M_EnterSteady
    \/ M_Outbound
    \/ M_OutClosed
    \/ M_Inbound
    \/ M_TryRecv
    \/ M_Wake

DropNext ==
    \/ Connect
    \/ MgrDrop
    \/ ServerBeats(ConnectedFrame)
    \/ EnvRead
    \/ EnvDrop
    \/ SendFrame("t1")
    \/ DropHandles

DropSpec == Init /\ [][DropNext]_vars

\* the runtime keeps running the manager task while it has a step to take,
\* and the server reads what is written to it and answers the handshake
DropFairSpec ==
    DropSpec /\ WF_vars(MgrDrop) /\ WF_vars(EnvRead) /\ WF_vars(ServerBeats(ConnectedFrame))

\* C39: once every handle of the connection is dropped, the manager
\* eventually leaves its reconnect loop for good.
C39_DroppedHandlesEndManager == (connect_result = "Dropped") ~> [](pc = "exited")

\* --------------------------------------------------------- transactions

TxCommands == {"BEGIN", "COMMIT", "ABORT"}

TxNext ==
    \/ Connect
    \/ MgrSession
    \/ \E item \in EndItems : EnvSend(item)
    \/ EnvReadKept
    \/ NextFrame
    \/ Close
    \/ M_Shutdown
    \/ \E t \in SubTasks : SubscribeStart(t, "/q/a", "client", <<>>)
    \/ \E t \in SubTasks : SubscribeInsert(t)
    \/ \E t \in SubTasks : SubscribeSend(t)
    \/ \E t \in SubTasks, c \in TxCommands : send_transaction_frame(t, c, "tx1")

TxSpec == Init /\ [][TxNext]_vars

\* the one task of these runs has called begin, commit or abort in this step
TxCalled == ops' # ops /\ call'["t1"].op \in TxCommands

IdNext ==
    \/ Connect
    \/ MgrSession
    \/ \E item \in EndItems : EnvSend(item)
    \/ EnvRead
    \/ NextFrame
    \/ \E t \in Tasks, d \in {"/q/a", "/q/b"} : SubscribeStart(t, d, "client", <<>>)
    \/ \E t \in Tasks : SubscribeInsert(t)
    \/ \E t \in Tasks : SubscribeSend(t)

IdSpec == Init /\ [][IdNext]_vars

\* the number a subscription id stands for
IdNumber(id) == CHOOSE n \in 1..(MaxSubs + 1) : ToString(n) = id

\* the places of the table: destination and index
Places(map) == UNION {{<<d, i>> : i \in 1..Len(map[d])} : d \in DOMAIN map}

\* task t takes an id from the counter in this step
Allocates(t) == call[t].pc # "insert" /\ call'[t].op = "subscribe" /\ call'[t].pc = "insert"

\* task t is inside subscribe with its id taken
Subscribing(t) == call[t].op = "subscribe" /\ call[t].pc \in {"insert", "send"}

\* C34: an id taken by subscribe is greater than every id taken before, the
\* ids of the calls under way are pairwise distinct, and no two records of
\* the subscription table share an id.
C34_SubscriptionIdsDistinct ==
    [][/\ \A t \in Tasks : Allocates(t) =>
              \A id \in DOMAIN rxAlive : IdNumber(call'[t].id) > IdNumber(id)
       /\ \A t, u \in Tasks :
              (t # u /\ Subscribing(t)' /\ Subscribing(u)') => call'[t].id # call'[u].id
       /\ \A p, q \in Places(subscriptions') :
              subscriptions'[p[1]][p[2]].id = subscriptions'[q[1]][q[2]].id => p = q]_vars

\* the two tasks subscribed at the same time and the table holds their two
\* records, the one of the later id first
C34_Witness ==
    /\ "/q/a" \in DOMAIN subscriptions
    /\ Len(subscriptions["/q/a"]) = 2
    /\ subscriptions["/q/a"][1].id = "2"
    /\ subscriptions["/q/a"][2].id = "1"

\* ------------------------------------------- receivers that were dropped

PruneItems == {ConnectedFrame, MessageFrame("/q/a", "1", "m1"), MessageFrame("/q/a", "", "m2")}

PruneNext ==
    \/ Connect
    \/ MgrSession
    \/ \E item \in PruneItems : EnvSend(item)
    \/ EnvRead
    \/ NextFrame
    \/ \E t \in SubTasks : SubscribeStart(t, "/q/a", "client", <<>>)
    \/ \E t \in SubTasks : SubscribeInsert(t)
    \/ \E t \in SubTasks : SubscribeSend(t)
    \/ \E id \in SubIds : DropRx(id)

PruneSpec == Init /\ [][PruneNext]_vars

\* C31: the delivery of a MESSAGE leaves no record in the table for a matched
\* subscription whose receiver was dropped, whether the MESSAGE named the
\* subscription or was matched by destination.
C31_ClosedEndpointPruned ==
    [][Delivering =>
          \A id \in DOMAIN rxAlive :
              (Matched(cur, id) /\ ~rxAlive[id])
                  => ~(\E e \in Entries(subscriptions') : e.id = id)]_vars

\* the runs of ResubSpec with the server keeping what it reads
UnsubNext ==
    \/ Connect
    \/ MgrSub
    \/ \E item \in ResubItems : EnvSend(item)
    \/ EnvReadKept
    \/ FirstDrop
    \/ NextFrame
    \/ \E t \in SubTasks, i \in ResubInputs : SubscribeStart(t, i[1], i[2], ExtraHeaders(i[1]))
    \/ \E t \in SubTasks : SubscribeInsert(t)
    \/ \E t \in SubTasks : SubscribeSend(t)
    \/ \E t \in SubTasks, id \in SubIds : UnsubscribeStart(t, id)
    \/ \E t \in SubTasks : UnsubscribeSend(t)

UnsubSpec == Init /\ [][UnsubNext]_vars

\* the frames the application and the manager have sent, oldest first: read by
\* the server, on the transport, or waiting in the outbound channel
SentSoFar == received \o wire \o outQ

IsUnsubscribeOf(f, id) == f.kind = "frame" /\ f.command = "UNSUBSCRIBE" /\ get_header(f, "id") = id
IsSubscribeOf(f, id) == f.kind = "frame" /\ f.command = "SUBSCRIBE" /\ get_header(f, "id") = id

\* C37: on the first transport the manager writes at most one SUBSCRIBE frame
\* for each subscription id.
C37_OneSubscribePerSession ==
    opened = 1 =>
        \A id \in SubIds :
            LET written == received \o wire
            IN  Cardinality({i \in 1..Len(written) : IsSubscribeOf(written[i], id)}) <= 1

\* C27: the step that ends unsubscribe(id) with Ok enqueues one UNSUBSCRIBE
\* frame with that id; from then on the table has no record of id, no second
\* UNSUBSCRIBE of id is sent, and no SUBSCRIBE of id follows it, on a later
\* transport either.
C27_UnsubscribeRemovesForGood ==
    [][/\ \A t \in Tasks :
              (call[t].op = "unsubscribe" /\ call[t].pc = "send" /\ call'[t].pc = "done"
               /\ call'[t].res = "Ok") =>
                  outQ' = Append(outQ, Frame("UNSUBSCRIBE", << <<"id", call[t].id>> >>))
       /\ \A id \in SubIds :
              \A i \in 1..Len(SentSoFar') :
                  IsUnsubscribeOf(SentSoFar'[i], id) =>
                      /\ \A e \in Entries(subscriptions') : e.id # id
                      /\ \A j \in 1..Len(SentSoFar') :
                             /\ (j # i => ~IsUnsubscribeOf(SentSoFar'[j], id))
                             /\ (j > i => ~IsSubscribeOf(SentSoFar'[j], id))]_vars

\* the server read SUBSCRIBE and UNSUBSCRIBE of subscription 1 on the first
\* transport and the CONNECT of the second, on which the manager has reached
\* the steady state having resubscribed nothing
C27_Witness ==
    /\ opened = 2
    /\ pc = "steady"
    /\ resubbed = {}
    /\ Len(received) = 4
    /\ received[1].command = "CONNECT"
    /\ IsSubscribeOf(received[2], "1")
    /\ IsUnsubscribeOf(received[3], "1")
    /\ received[4].command = "CONNECT"

\* C5: once the manager has resubscribed on a transport opened after a drop,
\* every subscription the application held at the drop and still holds has had
\* its SUBSCRIBE frame, with its id, destination, ack mode and extra headers,
\* written on the new transport.
C5_ResubscribeMatchesHeld ==
    (pc = "steady" /\ link = "up" /\ opened = 2) =>
        \A id \in DOMAIN heldAtDrop \cap DOMAIN held :
            SubscribeFrame(id, held[id].dest, held[id].ack, held[id].headers) \in resubbed

\* ------------------------------------------------------------------ receipts

\* task t has finished waiting for a receipt
Waited(t) == call[t].op \in {"wait_for_receipt", "send_frame_confirmed"} /\ call[t].pc = "done"

\* no RECEIPT with the receipt id of task t was routed
NoReceipt(t) == ~call[t].routed /\ ~call[t].early

\* C6: when the manager routed a RECEIPT for r after send_frame_with_receipt
\* returned r and before the timeout of wait_for_receipt(r, t) elapsed, also
\* before wait_for_receipt was called, wait_for_receipt returns Ok.
C6_RoutedReceiptIsOk ==
    \A t \in Tasks :
        (call[t].op = "wait_for_receipt" /\ call[t].pc = "done" /\ call[t].routed)
            => call[t].res = "Ok"

\* C7: no receipt id is generated twice on the connection, whichever of
\* send_frame_with_receipt and send_frame_confirmed generates it.
C7_ReceiptIdsDiffer ==
    \A i, j \in 1..Len(genIds) : i # j => genIds[i] # genIds[j]

\* C8: when no RECEIPT for r was routed, wait_for_receipt and
\* send_frame_confirmed end in ReceiptTimeout and the pending-receipt map has
\* no entry for r.
C8_NoReceiptIsTimeout ==
    \A t \in Tasks :
        (Waited(t) /\ NoReceipt(t))
            => (call[t].res = "ReceiptTimeout" /\ call[t].rid \notin DOMAIN pending_receipts)

\* C9: when the transport dropped while the caller waited for r and no RECEIPT
\* for r was routed, the wait ends in the protocol error of a closed channel
\* and the pending-receipt map has no entry for r.
C9_DropIsProtocolError ==
    \A t \in Tasks :
        (Waited(t) /\ call[t].drop /\ NoReceipt(t))
            => (call[t].res = "Protocol" /\ call[t].rid \notin DOMAIN pending_receipts)
====
